---- MODULE Spec2Model ----
(***************************************************************************)
(* A model of vmsh's tracee control (src/src/kvm/mod.rs: Tracee,           *)
(* Hypervisor, HvMem, VmMem) and of its VirtIO block device                *)
(* (src/src/devices/virtio/block/device.rs: Block).                        *)
(*                                                                         *)
(* The specifications of the module:                                       *)
(*   Spec          the hypervisor handle: stop / resume, the remote calls, *)
(*                 the typed memory allocators and the destructors of what *)
(*                 they return;                                            *)
(*   SpecSlots     vm_add_mem and get_maps on the VM's memory slots;       *)
(*   SpecMem       reads and writes of the target's typed memory;          *)
(*   SpecLatch     DeviceReady's notify() and wait(), step by step;        *)
(*   SpecMmio      the interposer and the blkdev-monitor on the Block;     *)
(*   SpecLock      concurrent callers of one Hypervisor and its HvMems;    *)
(*   SpecLoader    Loader::write_stage1_args on the loadables of a binary; *)
(*   SpecEvent     the device's blocking calls into the event loop;        *)
(*   SpecBlock     the block device driven through its MMIO registers;     *)
(*   SpecDiscover  get_hypervisor on a listing of the target's descriptors;*)
(*   SpecAttach    attach() (src/src/attach.rs) with its interposer loop.  *)
(*                                                                         *)
(* An Option<X> is the set of its values: {} is None, {x} is Some(x).      *)
(* A bit mask (status byte, feature word) is the set of the bits set.      *)
(***************************************************************************)
EXTENDS Naturals, FiniteSets, Sequences

\* Bounds of the model.
MaxSessions == 2
MaxHvMem == 2
MaxTSize == 1
MaxSubs == 2
MaxFds == 4
MaxVcpuIdx == 1
MmioBase == 2
MmioSize == 2
DEVICE_MAX_MEM == 1
MaxBeyond == 2
MaxQueueVal == 1
MaxRegions == 1
MaxMemSize == 2
MaxCallers == 2
MaxWaiters == 3
PageSize == 2
MaxUsedSlots == 24
MaxOverSlots == 12
ArgsSize == 2
MaxMapLen == 4
UsizeBits == 4

\* str::parse::<usize> reads decimal digits.
Radix == 10

\* The value _activate registers the queue-notify doorbell for: the index of
\* the device's one queue.
DataMatch == 0

\* MAX_SLOTS of the kernel probe, and the length at which get_maps warns.
MAX_SLOTS == 1024
WarnLen == 1024

VARIABLES
    proc,        \* Tracee.proc: Option<Injectee>
    live,        \* the Injectee sessions that exist: each holds the target stopped
    lock,        \* Hypervisor.tracee, the RwLock: "free", "poisoned", "held"
    hvmems,      \* the HvMem values handed out, by target address
    lastCall,    \* the last call on the hypervisor handle and what it did
    status,            \* VirtioConfig.device_status
    driver_features,   \* VirtioConfig.driver_features
    device_features,   \* VirtioConfig.device_features
    device_activated,  \* VirtioConfig.device_activated
    read_only,         \* Block.read_only
    sub_id,            \* Block.sub_id: Option<SubscriberId>
    handler,           \* Block.handler: Option<handler>
    subscribers,       \* the event manager's queue-handler subscribers
    everReset,         \* history: an activated device has been reset
    lastMmio,          \* the last register write and what it did
    fds,         \* the target's open descriptors, as handle.fds() lists them
    hv,          \* what get_hypervisor returned for that listing
    pc,          \* where attach() is
    threads,     \* the threads attach() has spawned that still run
    device_ready,  \* DeviceReady.lock: stage0 may set up the block driver
    shutdown,    \* a shutdown signal has been raised
    lastExit,    \* the last KVM exit the interposer loop saw, and what it did
    advertise_flush,   \* BlockArgs.advertise_flush, as Block::new was given it
    use_ioregionfd,    \* the build's doorbell path: use_ioregionfd()
    doorbell,          \* the last write to the queue-notify register
    tpc,         \* where each thread is in the call it is making
    guards,      \* the lock guards that exist: <<thread, lock, mode>>
    waiting,     \* the threads blocked in DeviceReady.condvar.wait
    lastRemote   \* the last access to the target and the guard it ran under

traceeVars == <<proc, live, lock, hvmems, lastCall>>
blockVars == <<status, driver_features, device_features, device_activated,
               read_only, sub_id, handler, subscribers, everReset, lastMmio,
               advertise_flush, use_ioregionfd, doorbell>>
discVars == <<fds, hv>>
attachVars == <<pc, threads, device_ready, shutdown, lastExit>>
concVars == <<tpc, guards, waiting, lastRemote>>
vars == <<traceeVars, blockVars, discVars, attachVars, concVars>>

(***************************************************************************)
(* Tracee                                                                  *)
(***************************************************************************)

\* The least session id no existing Injectee uses.
FreshSid(l) ==
    CHOOSE n \in 1..MaxSessions :
        n \notin l /\ \A m \in 1..MaxSessions : m \notin l => n <= m

\* Tracee::attach, mutated: attaches without looking at self.proc.
attach_Always(p, l, ok) ==
    IF ok
    THEN [proc |-> {FreshSid(l \ p)}, live |-> (l \ p) \cup {FreshSid(l \ p)},
          result |-> "Ok", created |-> TRUE, released |-> p # {}]
    ELSE [proc |-> p, live |-> l, result |-> "AttachFailed",
          created |-> FALSE, released |-> FALSE]

\* Tracee::attach. ok: whether inject_syscall::attach(pid) can establish the
\* stop. A new Injectee holds the target's threads stopped while it exists.
attach(p, l, ok) ==
    IF p = {}
    THEN IF ok
         THEN [proc |-> {FreshSid(l)}, live |-> l \cup {FreshSid(l)},
               result |-> "Ok", created |-> TRUE, released |-> FALSE]
         ELSE [proc |-> {}, live |-> l, result |-> "AttachFailed",
               created |-> FALSE, released |-> FALSE]
    ELSE [proc |-> p, live |-> l, result |-> "Ok",
          created |-> FALSE, released |-> FALSE]

\* Tracee::detach, mutated: forgets to clear self.proc.
detach_Keep(p, l) ==
    [proc |-> p, live |-> l, released |-> FALSE]

\* Tracee::detach: self.proc = None drops the Injectee, if there is one, and
\* with it the stop of the target.
detach(p, l) ==
    [proc |-> {}, live |-> l \ p, released |-> p # {}]

\* Tracee::try_get_proc, mutated: a missing Injectee goes unnoticed.
try_get_proc_Any(p) == "Ok"

\* Tracee::try_get_proc.
try_get_proc(p) == IF p = {} THEN "NotAttached" ELSE "Ok"

\* The target's threads run iff no Injectee exists.
TargetRunning == live = {}

Call(op, result, pre, created, released) ==
    [op |-> op, result |-> result, pre |-> pre,
     created |-> created, released |-> released]

(***************************************************************************)
(* Hypervisor::stop and Hypervisor::resume                                 *)
(***************************************************************************)

stop ==
    \/ /\ lock = "poisoned"
       /\ lastCall' = Call("stop", "Poisoned", proc, FALSE, FALSE)
       /\ UNCHANGED <<proc, live, lock, hvmems, blockVars, discVars, attachVars, concVars>>
    \/ /\ lock = "free"
       /\ \E ok \in BOOLEAN :
            /\ \E n \in 1..MaxSessions : n \notin live \ proc
            /\ LET r == attach(proc, live, ok) IN
                 /\ proc' = r.proc
                 /\ live' = r.live
                 /\ lastCall' = Call("stop", r.result, proc, r.created, r.released)
       /\ UNCHANGED <<lock, hvmems, blockVars, discVars, attachVars, concVars>>

\* Hypervisor::resume, mutated: refuses a tracee that is not attached.
resume_Strict ==
    \/ /\ lock = "poisoned"
       /\ lastCall' = Call("resume", "Poisoned", proc, FALSE, FALSE)
       /\ UNCHANGED <<proc, live, lock, hvmems, blockVars, discVars, attachVars, concVars>>
    \/ /\ lock = "free"
       /\ IF try_get_proc(proc) = "Ok"
          THEN LET r == detach(proc, live) IN
                 /\ proc' = r.proc
                 /\ live' = r.live
                 /\ lastCall' = Call("resume", "Ok", proc, FALSE, r.released)
          ELSE /\ lastCall' = Call("resume", "NotAttached", proc, FALSE, FALSE)
               /\ UNCHANGED <<proc, live>>
       /\ UNCHANGED <<lock, hvmems, blockVars, discVars, attachVars, concVars>>

resume ==
    \/ /\ lock = "poisoned"
       /\ lastCall' = Call("resume", "Poisoned", proc, FALSE, FALSE)
       /\ UNCHANGED <<proc, live, lock, hvmems, blockVars, discVars, attachVars, concVars>>
    \/ /\ lock = "free"
       /\ LET r == detach(proc, live) IN
            /\ proc' = r.proc
            /\ live' = r.live
            /\ lastCall' = Call("resume", "Ok", proc, FALSE, r.released)
       /\ UNCHANGED <<lock, hvmems, blockVars, discVars, attachVars, concVars>>

(***************************************************************************)
(* HvMem: Hypervisor::alloc_mem_padded, alloc_mem and the destructor       *)
(***************************************************************************)

NoHvMem == [h \in {} |-> {}]

TSizes == 1..MaxTSize
PadSizes == 0..(MaxTSize + 1)

\* alloc_mem_padded bails when size < size_of::<T>().
SizeSufficient(size, tsize) == ~(size < tsize)

\* The values of a byte of the target's memory: zero and not zero.
Bytes == {0, 1}

\* The values of a T of tsize bytes, as any_as_bytes lays them out.
Values(tsize) == [1..tsize -> Bytes]

Zeroed(tsize) == [i \in 1..tsize |-> 0]

\* The HvMem that a successful remote mmap(size) gives: ptr is the new
\* mapping's address, unmaps counts the remote munmap calls on it. mem is
\* the first size_of::<T>() bytes of the mapping, which MAP_ANONYMOUS gives
\* zero-filled; wrote and wval record the last HvMem::write on it.
\* The pages the kernel maps or unmaps for a length of n bytes.
Pages(n) == (n + PageSize - 1) \div PageSize

\* ulen: the length the drop passed to the remote munmap (0: none issued);
\* mapped: the pages of the allocation that are mapped in the target.
NewHvMem(tsize, size) ==
    [tsize |-> tsize, size |-> size, state |-> "alive", unmaps |-> 0,
     ulen |-> 0, mapped |-> Pages(size),
     mem |-> Zeroed(tsize), wrote |-> "never", wval |-> Zeroed(tsize)]

Alive == {h \in DOMAIN hvmems : hvmems[h].state = "alive"}

alloc_mem_padded(tsize, size) ==
    \/ /\ ~SizeSufficient(size, tsize)
       /\ lastCall' = Call("alloc_mem_padded", "TooSmall", proc, FALSE, FALSE)
       /\ UNCHANGED <<proc, live, lock, hvmems, blockVars, discVars, attachVars, concVars>>
    \/ /\ SizeSufficient(size, tsize)
       /\ lock = "poisoned"
       /\ lastCall' = Call("alloc_mem_padded", "Poisoned", proc, FALSE, FALSE)
       /\ UNCHANGED <<proc, live, lock, hvmems, blockVars, discVars, attachVars, concVars>>
    \/ /\ SizeSufficient(size, tsize)
       /\ lock = "free"
       /\ try_get_proc(proc) # "Ok"
       /\ lastCall' = Call("alloc_mem_padded", "NotAttached", proc, FALSE, FALSE)
       /\ UNCHANGED <<proc, live, lock, hvmems, blockVars, discVars, attachVars, concVars>>
    \/ /\ SizeSufficient(size, tsize)
       /\ lock = "free"
       /\ try_get_proc(proc) = "Ok"
       /\ \E mapped \in BOOLEAN :
            IF mapped
            THEN /\ Cardinality(DOMAIN hvmems) < MaxHvMem
                 /\ LET ptr == Cardinality(DOMAIN hvmems) + 1 IN
                      hvmems' = [h \in DOMAIN hvmems \cup {ptr} |->
                                   IF h = ptr THEN NewHvMem(tsize, size)
                                   ELSE hvmems[h]]
                 /\ lastCall' = Call("alloc_mem_padded", "Ok", proc, FALSE, FALSE)
            ELSE /\ hvmems' = hvmems
                 /\ lastCall' = Call("alloc_mem_padded", "MmapFailed", proc, FALSE, FALSE)
       /\ UNCHANGED <<proc, live, lock, blockVars, discVars, attachVars, concVars>>

alloc_mem(tsize) == alloc_mem_padded(tsize, tsize)

\* The length HvMem's destructor passes to Tracee::munmap: size_of::<T>().
DropLen(m) == m.tsize

\* The pages left of a mapping of `pages` pages after munmap(ptr, len).
Unmapped(pages, len) == IF Pages(len) >= pages THEN 0 ELSE pages - Pages(len)

\* Tracee::munmap, mutated: the remote munmap is never issued.
munmap_Never(p, m) ==
    [m EXCEPT !.state = IF try_get_proc(p) = "Ok" THEN "attached" ELSE "detached"]

\* Tracee::munmap as HvMem's destructor calls it: the remote munmap is issued
\* only when the tracee is attached.
munmap(p, m) ==
    IF try_get_proc(p) = "Ok"
    THEN [m EXCEPT !.state = "attached", !.unmaps = m.unmaps + 1,
                   !.ulen = DropLen(m),
                   !.mapped = Unmapped(m.mapped, DropLen(m))]
    ELSE [m EXCEPT !.state = "detached"]

\* impl Drop for HvMem. The state of a dropped HvMem records how its drop found
\* the tracee.
HvMem_drop(h) ==
    \/ /\ h \in Alive
       /\ lock = "poisoned"
       /\ hvmems' = [hvmems EXCEPT ![h].state = "poisoned"]
       /\ lastCall' = Call("HvMem_drop", "Poisoned", proc, FALSE, FALSE)
       /\ UNCHANGED <<proc, live, lock, blockVars, discVars, attachVars, concVars>>
    \/ /\ h \in Alive
       /\ lock = "free"
       /\ hvmems' = [hvmems EXCEPT ![h] = munmap(proc, hvmems[h])]
       /\ lastCall' = Call("HvMem_drop", try_get_proc(proc), proc, FALSE, FALSE)
       /\ UNCHANGED <<proc, live, lock, blockVars, discVars, attachVars, concVars>>

(***************************************************************************)
(* The remote calls of Tracee and the memory accessors of HvMem            *)
(***************************************************************************)

\* What a remote call gives: its Result, whether a syscall was executed in
\* the target, and whether the target's memory was accessed
\* (process_vm_readv / process_vm_writev).
Remote(result, syscall, memop) ==
    [result |-> result, syscall |-> syscall, memop |-> memop]

\* Tracee::vm_ioctl: proc.ioctl(vm_fd, ..) on the Injectee. ret: what the
\* injected ioctl gives.
vm_ioctl(p, ret) ==
    IF try_get_proc(p) # "Ok"
    THEN Remote("NotAttached", FALSE, FALSE)
    ELSE Remote(ret, TRUE, FALSE)

\* Tracee::vm_ioctl_with_ref: reads the argument back from the target's
\* memory first (process_read, "foobar" on failure), then vm_ioctl.
\* rd: whether process_vm_readv on the target succeeds.
vm_ioctl_with_ref(p, rd, ret) ==
    IF ~rd
    THEN Remote("ReadFailed", FALSE, TRUE)
    ELSE [vm_ioctl(p, ret) EXCEPT !.memop = TRUE]

\* Tracee::vcpu_ioctl: proc.ioctl(vcpu.fd_num, ..) on the Injectee.
vcpu_ioctl(p, ret) ==
    IF try_get_proc(p) # "Ok"
    THEN Remote("NotAttached", FALSE, FALSE)
    ELSE Remote(ret, TRUE, FALSE)

\* Tracee::check_extension.
check_extension(p, ret) == vm_ioctl(p, ret)

SyscallResults == {"Ok", "InjectFailed"}

RemoteCall(op, r, pre) ==
    [op |-> op, result |-> r.result, pre |-> pre, created |-> FALSE,
     released |-> FALSE, syscall |-> r.syscall, memop |-> r.memop]

\* A caller that holds a guard of Hypervisor.tracee calls one of the remote
\* calls; vm_ioctl_with_ref takes a live HvMem as its argument.
tracee_call ==
    \/ /\ lock = "free"
       /\ \E ret \in SyscallResults :
            lastCall' = RemoteCall("vm_ioctl", vm_ioctl(proc, ret), proc)
       /\ UNCHANGED <<proc, live, lock, hvmems, blockVars, discVars, attachVars, concVars>>
    \/ /\ lock = "free"
       /\ Alive # {}
       /\ \E rd \in BOOLEAN : \E ret \in SyscallResults :
            lastCall' = RemoteCall("vm_ioctl_with_ref",
                                   vm_ioctl_with_ref(proc, rd, ret), proc)
       /\ UNCHANGED <<proc, live, lock, hvmems, blockVars, discVars, attachVars, concVars>>
    \/ /\ lock = "free"
       /\ \E ret \in SyscallResults :
            lastCall' = RemoteCall("vcpu_ioctl", vcpu_ioctl(proc, ret), proc)
       /\ UNCHANGED <<proc, live, lock, hvmems, blockVars, discVars, attachVars, concVars>>
    \/ /\ lock = "free"
       /\ \E ret \in SyscallResults :
            lastCall' = RemoteCall("check_extension", check_extension(proc, ret), proc)
       /\ UNCHANGED <<proc, live, lock, hvmems, blockVars, discVars, attachVars, concVars>>

(***************************************************************************)
(* Hypervisor::get_maps: the memslots of the VM through the kernel probe   *)
(***************************************************************************)

\* The values of kvm->memslots[0]->used_slots: a few slots, and the values
\* around MAX_SLOTS.
UsedSlots ==
    (0..MaxUsedSlots) \cup ((MAX_SLOTS - 1)..(MAX_SLOTS + MaxOverSlots))

Min(a, b) == IF a < b THEN a ELSE b

\* The probe on kvm_vm_ioctl: out->used_slots is the VM's count, the loop
\* fills at most MAX_SLOTS entries of the record.
probe(used) == [used_slots |-> used, written |-> Min(MAX_SLOTS, used)]

\* The perf callback of get_maps: size = ptr::read(head) and
\* make_slice(head.add(1), size): the number of entries it reads out of the
\* record.
perf_callback(rec) == rec.used_slots

\* Whether get_maps warns about the capacity.
Warns(len) == len = WarnLen

\* What the environment of get_maps does: everything works, the probe
\* cannot be built or installed, no record arrives, or a memslot has no
\* mapping in /proc/<pid>/maps.
MapsEnvs == {"ok", "probe", "norecord", "nomapping"}

MapsCall(result, pre, syscall, rec, read, warned) ==
    [op |-> "get_maps", result |-> result, pre |-> pre, created |-> FALSE,
     released |-> FALSE, syscall |-> syscall, memop |-> FALSE,
     used_slots |-> rec.used_slots, written |-> rec.written,
     read |-> read, warned |-> warned]

NoRecord == [used_slots |-> 0, written |-> 0]

\* Hypervisor::get_maps -> memslots::get_maps. A slice longer than the
\* record is read beyond the record: the build either faults there or goes
\* on with whatever the memory behind the record holds.
get_maps(used, env, ret) ==
    /\ lock \in {"free", "poisoned"}
    /\ IF lock = "poisoned"
       THEN lastCall' = MapsCall("Poisoned", proc, FALSE, NoRecord, 0, FALSE)
       ELSE IF env = "probe"
       THEN lastCall' = MapsCall("ProbeFailed", proc, FALSE, NoRecord, 0, FALSE)
       ELSE LET r == check_extension(proc, ret) IN
         IF r.result # "Ok"
         THEN lastCall' = MapsCall(r.result, proc, r.syscall, NoRecord, 0, FALSE)
         ELSE IF env = "norecord"
         THEN lastCall' = MapsCall("NoRecord", proc, TRUE, NoRecord, 0, FALSE)
         ELSE LET rec == probe(used)
                  n == perf_callback(rec) IN
           \E beyond \in {"fault", "garbage"} :
             lastCall' = MapsCall(IF n > rec.written /\ beyond = "fault"
                                  THEN "Fault"
                                  ELSE IF env = "nomapping" /\ n > 0
                                  THEN "NoMapping" ELSE "Ok",
                                  proc, TRUE, rec, n,
                                  ~(n > rec.written /\ beyond = "fault") /\ Warns(n))
    /\ UNCHANGED <<proc, live, lock, hvmems, blockVars, discVars, attachVars, concVars>>

\* What process_vm_readv / process_vm_writev can give for a request of len
\* bytes: an error, or the number of bytes it copied.
KernelCopies(len) ==
    {[err |-> TRUE, n |-> 0]} \cup {[err |-> FALSE, n |-> f] : f \in 0..len}

Copy(result, value, mem, calls) ==
    [result |-> result, value |-> value, mem |-> mem, calls |-> calls]

\* process_read, mutated: the number of bytes read is not compared with len;
\* the bytes that were not read are whatever t_mem held.
process_read_Lenient(len, mem, k) ==
    IF k.err THEN Copy("ReadFailed", {}, mem, 1)
    ELSE Copy("Ok", {[i \in 1..len |-> IF i <= k.n THEN mem[i] ELSE 1]}, mem, 1)

\* process_read::<T>(pid, addr): one process_vm_readv of len = size_of::<T>()
\* bytes; an error of the call and a count other than len are errors, and
\* only a full read gives a value.
process_read(len, mem, k) ==
    IF k.err THEN Copy("ReadFailed", {}, mem, 1)
    ELSE IF k.n # len THEN Copy("ShortRead", {}, mem, 1)
    ELSE Copy("Ok", {[i \in 1..len |-> mem[i]]}, mem, 1)

\* process_write, mutated: the number of bytes written is not compared with
\* len.
process_write_Lenient(len, mem, val, k) ==
    IF k.err THEN Copy("WriteFailed", {}, mem, 1)
    ELSE Copy("Ok", {}, [i \in 1..len |-> IF i <= k.n THEN val[i] ELSE mem[i]], 1)

\* process_write::<T>(pid, addr, val): one process_vm_writev of the len bytes
\* of val; the kernel has copied the first k.n of them.
process_write(len, mem, val, k) ==
    IF k.err THEN Copy("WriteFailed", {}, mem, 1)
    ELSE IF k.n # len
    THEN Copy("ShortWrite", {}, [i \in 1..len |-> IF i <= k.n THEN val[i] ELSE mem[i]], 1)
    ELSE Copy("Ok", {}, [i \in 1..len |-> val[i]], 1)

MemCall(op, c, pre, h, len, k, val) ==
    [op |-> op, result |-> c.result, pre |-> pre, created |-> FALSE,
     released |-> FALSE, syscall |-> FALSE, memop |-> TRUE,
     h |-> h, len |-> len, err |-> k.err, copied |-> k.n,
     value |-> c.value, val |-> val, calls |-> c.calls]

\* HvMem::read: process_read(self.pid, self.ptr).
HvMem_read(h) ==
    /\ h \in Alive
    /\ \E k \in KernelCopies(hvmems[h].tsize) :
         LET c == process_read(hvmems[h].tsize, hvmems[h].mem, k) IN
           lastCall' = MemCall("HvMem_read", c, proc, h, hvmems[h].tsize, k, {})
    /\ UNCHANGED <<proc, live, lock, hvmems, blockVars, discVars, attachVars, concVars>>

\* HvMem::write: process_write(self.pid, self.ptr, val).
HvMem_write(h) ==
    /\ h \in Alive
    /\ \E val \in Values(hvmems[h].tsize) :
       \E k \in KernelCopies(hvmems[h].tsize) :
         LET c == process_write(hvmems[h].tsize, hvmems[h].mem, val, k) IN
           /\ hvmems' = [hvmems EXCEPT
                            ![h].mem = c.mem,
                            ![h].wrote = IF c.result = "Ok" THEN "ok" ELSE "failed",
                            ![h].wval = IF c.result = "Ok" THEN val
                                        ELSE Zeroed(hvmems[h].tsize)]
           /\ lastCall' = MemCall("HvMem_write", c, proc, h, hvmems[h].tsize, k, {val})
    /\ UNCHANGED <<proc, live, lock, blockVars, discVars, attachVars, concVars>>

(***************************************************************************)
(* Hypervisor::vm_add_mem                                                  *)
(***************************************************************************)

\* The sizes of T that vm_add_mem::<T> is called with.
SlotTSizes == 0..(2 * PageSize)

\* slot_len of vm_add_mem.
slot_len(tsize) == (tsize \div PageSize + 1) * PageSize

\* What a call of vm_add_mem::<T> leaves: its outcome and, when it got as
\* far, the length it asked alloc_mem_padded for.
AddMemCall(result, pre, tsize, len) ==
    [op |-> "vm_add_mem", result |-> result, pre |-> pre, created |-> FALSE,
     released |-> FALSE, tsize |-> tsize, slot_len |-> len]

\* vm_add_mem takes the tracee write lock and, still holding it, calls
\* alloc_mem_padded, which takes the write lock again. std::sync::RwLock does
\* not return from write() on a lock its thread already holds: the build
\* either panics there (the guard of vm_add_mem is dropped while unwinding,
\* which poisons the lock) or blocks forever with the lock held. Neither
\* outcome maps memory, registers a slot or builds a VmMem.
vm_add_mem(tsize) ==
    \/ /\ lock = "poisoned"
       /\ lastCall' = AddMemCall("Poisoned", proc, tsize, 0)
       /\ UNCHANGED <<proc, live, lock, hvmems, blockVars, discVars, attachVars, concVars>>
    \/ /\ lock = "free"
       /\ \E outcome \in {"poisoned", "held"} :
            /\ lock' = outcome
            /\ lastCall' = AddMemCall(IF outcome = "held" THEN "Blocked"
                                      ELSE "Panicked",
                                      proc, tsize, slot_len(tsize))
       /\ UNCHANGED <<proc, live, hvmems, blockVars, discVars, attachVars, concVars>>

(***************************************************************************)
(* The hypervisor handle's specification                                   *)
(***************************************************************************)

\* get_hypervisor: Hypervisor::_attach builds the Tracee with proc: None.
TraceeInit ==
    /\ proc = {}
    /\ live = {}
    /\ lock = "free"
    /\ hvmems = NoHvMem
    /\ lastCall = Call("get_hypervisor", "Ok", {}, FALSE, FALSE)

(***************************************************************************)
(* The VirtIO block device                                                 *)
(***************************************************************************)

StatusBits == {"ACKNOWLEDGE", "DRIVER", "FEATURES_OK", "DRIVER_OK", "FAILED"}
FeatureBits == {"VERSION_1", "IN_ORDER", "RING_EVENT_IDX", "BLK_F_RO", "BLK_F_FLUSH"}

\* What the environment lets an activation do: everything, or the step that
\* fails (OpenOptions::open, StdIoBackend::new, IoEvent::register, the
\* endpoint's call_blocking).
ActivateEnvs == {"ok", "open", "backend", "ioevent", "endpoint"}

\* Block::new, mutated: BLK_F_RO is never advertised.
NewDeviceFeatures_NoRo(ro, flush) ==
    {"VERSION_1", "IN_ORDER", "RING_EVENT_IDX"}
        \cup (IF flush THEN {"BLK_F_FLUSH"} ELSE {})

\* The device features Block::new advertises.
NewDeviceFeatures(ro, flush) ==
    {"VERSION_1", "IN_ORDER", "RING_EVENT_IDX"}
        \cup (IF ro THEN {"BLK_F_RO"} ELSE {})
        \cup (IF flush THEN {"BLK_F_FLUSH"} ELSE {})

\* The least subscriber id the event manager has not given out.
FreshSub(subs) ==
    CHOOSE n \in 1..MaxSubs :
        n \notin subs /\ \A m \in 1..MaxSubs : m \notin subs => n <= m

\* The device's own state, as one value.
Dev == [status |-> status, driver_features |-> driver_features,
        device_activated |-> device_activated, sub_id |-> sub_id,
        handler |-> handler, subscribers |-> subscribers]

\* What a call on the device gives: the device after it, the Result, and what
\* the call did on the way (opened the backing file, registered an ioeventfd,
\* added a subscriber).
Outcome(d, result, word, opened, registered, added) ==
    [dev |-> d, result |-> result, word |-> word,
     opened |-> opened, registered |-> registered, added |-> added]

\* Block::_activate, mutated: the AlreadyActivated check is missing.
_activate_Again(d, env) ==
    IF "VERSION_1" \notin d.driver_features
    THEN Outcome(d, "BadFeatures", d.driver_features, FALSE, FALSE, FALSE)
    ELSE IF env = "open"
    THEN Outcome(d, "OpenFile", {}, FALSE, FALSE, FALSE)
    ELSE IF env = "backend"
    THEN Outcome(d, "Backend", {}, TRUE, FALSE, FALSE)
    ELSE IF env = "ioevent"
    THEN Outcome(d, "Simple", {}, TRUE, FALSE, FALSE)
    ELSE IF env = "endpoint"
    THEN Outcome(d, "Endpoint", {}, TRUE, TRUE, FALSE)
    ELSE Outcome([d EXCEPT !.sub_id = {FreshSub(d.subscribers)},
                           !.subscribers = @ \cup {FreshSub(d.subscribers)},
                           !.device_activated = TRUE],
                 "Ok", {}, TRUE, TRUE, TRUE)

\* Block::_activate, mutated: a legacy driver (no VERSION_1) is accepted.
_activate_Legacy(d, env) ==
    IF d.device_activated
    THEN Outcome(d, "AlreadyActivated", {}, FALSE, FALSE, FALSE)
    ELSE IF env = "open"
    THEN Outcome(d, "OpenFile", {}, FALSE, FALSE, FALSE)
    ELSE IF env = "backend"
    THEN Outcome(d, "Backend", {}, TRUE, FALSE, FALSE)
    ELSE IF env = "ioevent"
    THEN Outcome(d, "Simple", {}, TRUE, FALSE, FALSE)
    ELSE IF env = "endpoint"
    THEN Outcome(d, "Endpoint", {}, TRUE, TRUE, FALSE)
    ELSE Outcome([d EXCEPT !.sub_id = {FreshSub(d.subscribers)},
                           !.subscribers = @ \cup {FreshSub(d.subscribers)},
                           !.device_activated = TRUE],
                 "Ok", {}, TRUE, TRUE, TRUE)

\* Block::_activate.
_activate(d, env) ==
    IF d.device_activated
    THEN Outcome(d, "AlreadyActivated", {}, FALSE, FALSE, FALSE)
    ELSE IF "VERSION_1" \notin d.driver_features
    THEN Outcome(d, "BadFeatures", d.driver_features, FALSE, FALSE, FALSE)
    ELSE IF env = "open"
    THEN Outcome(d, "OpenFile", {}, FALSE, FALSE, FALSE)
    ELSE IF env = "backend"
    THEN Outcome(d, "Backend", {}, TRUE, FALSE, FALSE)
    ELSE IF env = "ioevent"
    THEN Outcome(d, "Simple", {}, TRUE, FALSE, FALSE)
    ELSE IF env = "endpoint"
    THEN Outcome(d, "Endpoint", {}, TRUE, TRUE, FALSE)
    ELSE Outcome([d EXCEPT !.sub_id = {FreshSub(d.subscribers)},
                           !.subscribers = @ \cup {FreshSub(d.subscribers)},
                           !.device_activated = TRUE],
                 "Ok", {}, TRUE, TRUE, TRUE)

\* VirtioDeviceActions::activate: logs the error and returns what _activate
\* returned.
activate(d, env) == _activate(d, env)

\* Block::_reset. removed: whether the endpoint's call_blocking could run
\* remove_subscriber. sub_id.take() leaves None either way.
_reset(d, removed) ==
    IF d.sub_id # {}
    THEN IF removed
         THEN Outcome([d EXCEPT !.sub_id = {},
                                !.subscribers = @ \ d.sub_id,
                                !.handler = d.sub_id],
                      "Ok", {}, FALSE, FALSE, FALSE)
         ELSE Outcome([d EXCEPT !.sub_id = {}],
                      "Endpoint", {}, FALSE, FALSE, FALSE)
    ELSE Outcome(d, "Ok", {}, FALSE, FALSE, FALSE)

\* VirtioDeviceActions::reset: set_device_status(0), then _reset.
reset(d, removed) == _reset([d EXCEPT !.status = {}], removed)

(***************************************************************************)
(* The MMIO register writes that drive the device (MutDeviceMmio::         *)
(* mmio_write hands them to the VirtIO-MMIO transport)                     *)
(***************************************************************************)

Mmio(op, call, o, preActivated, env) ==
    [op |-> op, call |-> call, result |-> o.result, word |-> o.word,
     preActivated |-> preActivated, opened |-> o.opened,
     registered |-> o.registered, added |-> o.added, env |-> env]

Ignored(d) == Outcome(d, "Ok", {}, FALSE, FALSE, FALSE)

\* A call that registered an ioeventfd (IoEvent::register returned it) and
\* added no subscriber: the ioeventfd went, inside the handler, into the
\* closure given to call_blocking, and nothing handed it back to the caller.
Orphaned(m) == m.registered /\ ~m.added

SetDev(d) ==
    /\ status' = d.status
    /\ driver_features' = d.driver_features
    /\ device_activated' = d.device_activated
    /\ sub_id' = d.sub_id
    /\ handler' = d.handler
    /\ subscribers' = d.subscribers

\* The status values of the driver's initialisation sequence, in order.
StatusStep(s) ==
    IF s = {} THEN {"ACKNOWLEDGE"}
    ELSE IF s = {"ACKNOWLEDGE"} THEN s \cup {"DRIVER"}
    ELSE IF s = {"ACKNOWLEDGE", "DRIVER"} THEN s \cup {"FEATURES_OK"}
    ELSE IF s = {"ACKNOWLEDGE", "DRIVER", "FEATURES_OK"} THEN s \cup {"DRIVER_OK"}
    ELSE {}

\* A write of v (not 0, no FAILED) to the status register: the next step of
\* the sequence is taken, and the step to DRIVER_OK activates the device; any
\* other value is ignored.
write_status_step(v) ==
    \/ /\ v # {}
       /\ "FAILED" \notin v
       /\ v = StatusStep(status)
       /\ "DRIVER_OK" \notin v
       /\ SetDev([Dev EXCEPT !.status = v])
       /\ lastMmio' = Mmio("status", "none", Ignored(Dev), device_activated, "ok")
       /\ UNCHANGED <<device_features, read_only, advertise_flush, use_ioregionfd,
                   doorbell, everReset, traceeVars, discVars>>
    \/ /\ v # {}
       /\ "FAILED" \notin v
       /\ v = StatusStep(status)
       /\ "DRIVER_OK" \in v
       /\ \E env \in ActivateEnvs :
            /\ \E n \in 1..MaxSubs : n \notin subscribers
            /\ LET o == activate([Dev EXCEPT !.status = v], env) IN
                 /\ SetDev(o.dev)
                 /\ lastMmio' = Mmio("status", "activate", o, device_activated, env)
       /\ UNCHANGED <<device_features, read_only, advertise_flush, use_ioregionfd,
                   doorbell, everReset, traceeVars, discVars>>
    \/ /\ v # {}
       /\ "FAILED" \notin v
       /\ v # StatusStep(status)
       /\ SetDev(Dev)
       /\ lastMmio' = Mmio("status", "none", Ignored(Dev), device_activated, "ok")
       /\ UNCHANGED <<device_features, read_only, advertise_flush, use_ioregionfd,
                   doorbell, everReset, traceeVars, discVars>>

\* A write with FAILED set: the device is marked failed until it is reset.
write_status_failed(v) ==
    /\ "FAILED" \in v
    /\ SetDev([Dev EXCEPT !.status = @ \cup {"FAILED"}])
    /\ lastMmio' = Mmio("status", "none", Ignored(Dev), device_activated, "ok")
    /\ UNCHANGED <<device_features, read_only, advertise_flush, use_ioregionfd,
                   doorbell, everReset, traceeVars, discVars>>

\* A write of 0 to the status register resets the device.
write_status_zero ==
    \E removed \in BOOLEAN :
        LET o == reset(Dev, removed) IN
          /\ SetDev(o.dev)
          /\ everReset' = (everReset \/ (device_activated /\ o.result = "Ok"))
          /\ lastMmio' = Mmio("status", "reset", o, device_activated,
                              IF removed THEN "ok" ELSE "endpoint")
          /\ UNCHANGED <<device_features, read_only, advertise_flush, use_ioregionfd,
                   doorbell, traceeVars, discVars>>

\* A write to the driver-features register: between DRIVER and FEATURES_OK
\* the offered features among v are added to the acknowledged ones.
write_driver_features(v) ==
    /\ IF "DRIVER" \in status /\ status \cap {"FEATURES_OK", "DRIVER_OK", "FAILED"} = {}
       THEN SetDev([Dev EXCEPT !.driver_features = @ \cup (v \cap device_features)])
       ELSE SetDev(Dev)
    /\ lastMmio' = Mmio("driver_features", "none", Ignored(Dev), device_activated, "ok")
    /\ UNCHANGED <<device_features, read_only, advertise_flush, use_ioregionfd,
                   doorbell, everReset, traceeVars, discVars>>

(***************************************************************************)
(* The queue-notify doorbell                                               *)
(***************************************************************************)

\* The values a guest writes to the queue-notify register.
QueueVals == 0..MaxQueueVal

\* IoEvent::register in _activate: the doorbell stays registered for as long
\* as the queue handler that owns the ioeventfd is subscribed.
Registered(d) == d.subscribers # {}

\* The kernel's ioeventfd: a write of the registered value to the registered
\* address signals the event fd and causes no exit. It is what
\* IoEvent::register sets up unless the build uses ioregionfd.
kernel_ioeventfd(ioregion, registered, v) ==
    IF ~ioregion /\ registered /\ v = DataMatch THEN 1 ELSE 0

\* UserspaceIoEventFd::queue_notify: signals the event fd that was registered
\* for the value written.
uioefd_queue_notify(registered, v) ==
    IF registered /\ v = DataMatch THEN 1 ELSE 0

\* VirtioQueueNotifiable::queue_notify, mutated: the write is never
\* forwarded.
queue_notify_Never(ioregion, registered, v) == 0

\* VirtioQueueNotifiable::queue_notify: forwards the value to the userspace
\* ioeventfd if the build uses ioregionfd, and does nothing otherwise.
queue_notify(ioregion, registered, v) ==
    IF ioregion THEN uioefd_queue_notify(registered, v) ELSE 0

Doorbell(op, v, registered, notified) ==
    [op |-> op, val |-> v, registered |-> registered, notified |-> notified]

NoDoorbell == Doorbell("none", 0, FALSE, 0)

\* A write of v to the queue-notify register: the kernel's ioeventfd takes
\* it, or it reaches the device, whose transport calls queue_notify(v).
\* notified counts the signals the queue handler's event fd gets.
write_queue_notify(v) ==
    /\ LET k == kernel_ioeventfd(use_ioregionfd, Registered(Dev), v) IN
         doorbell' = Doorbell("notify", v, Registered(Dev),
                              IF k > 0 THEN k
                              ELSE queue_notify(use_ioregionfd, Registered(Dev), v))
    /\ SetDev(Dev)
    /\ UNCHANGED <<device_features, read_only, advertise_flush, use_ioregionfd,
                   everReset, lastMmio, traceeVars, discVars>>

\* Block::new: VirtioConfig::new(device_features, queues, config_space),
\* sub_id: None, handler: None.
BlockInit ==
    /\ \E ro \in BOOLEAN : \E flush \in BOOLEAN :
         /\ read_only = ro
         /\ advertise_flush = flush
         /\ device_features = NewDeviceFeatures(ro, flush)
    /\ use_ioregionfd \in BOOLEAN
    /\ doorbell = NoDoorbell
    /\ status = {}
    /\ driver_features = {}
    /\ device_activated = FALSE
    /\ sub_id = {}
    /\ handler = {}
    /\ subscribers = {}
    /\ everReset = FALSE
    /\ lastMmio = Mmio("new", "none", Outcome({}, "Ok", {}, FALSE, FALSE, FALSE),
                       FALSE, "ok")

(***************************************************************************)
(* Discovery of the VM and VCPU descriptors: find_vm_fd, get_hypervisor    *)
(***************************************************************************)

\* The file names of the descriptors: <<"kvm-vm">> is "anon_inode:kvm-vm",
\* <<"kvm-vcpu", s>> is "anon_inode:kvm-vcpu:" followed by the characters s
\* (a character is a digit's value or, for any other character, Radix),
\* <<"other">> is any other name.
Suffixes == {<<>>} \cup {<<c>> : c \in (0..MaxVcpuIdx) \cup {Radix}}
FdNames == {<<"kvm-vm">>, <<"other">>} \cup {<<"kvm-vcpu", x>> : x \in Suffixes}

\* What handle.fds() can list: the descriptor at position i has fd_num i.
Listings == UNION {[1..n -> FdNames] : n \in 0..MaxFds}

\* str::parse::<usize>: the decimal value of a non-empty string of digits,
\* {} for any other string.
RECURSIVE parse_usize(_)
parse_usize(x) ==
    IF x = <<>> THEN {}
    ELSE IF ~(x[Len(x)] < Radix) THEN {}
    ELSE IF Len(x) = 1 THEN {x[1]}
    ELSE {n * Radix + x[Len(x)] : n \in parse_usize(SubSeq(x, 1, Len(x) - 1))}

\* Vec::dedup_by_key(|vcpu| vcpu.idx): of consecutive elements with the same
\* idx only the first is kept.
RECURSIVE dedup_by_key(_)
dedup_by_key(v) ==
    IF Len(v) <= 1 THEN v
    ELSE LET init == dedup_by_key(SubSeq(v, 1, Len(v) - 1)) IN
           IF init[Len(init)].idx = v[Len(v)].idx THEN init
           ELSE Append(init, v[Len(v)])

Found(result, vm_fds, vcpus) ==
    [result |-> result, vm_fds |-> vm_fds, vcpus |-> vcpus]

\* The loop of find_vm_fd over the descriptors from position i on.
RECURSIVE classify(_, _, _, _)
classify(l, i, vm_fds, vcpu_fds) ==
    IF i > Len(l) THEN Found("Ok", vm_fds, vcpu_fds)
    ELSE IF l[i] = <<"kvm-vm">>
    THEN classify(l, i + 1, Append(vm_fds, i), vcpu_fds)
    ELSE IF l[i][1] = "kvm-vcpu"
    THEN IF parse_usize(l[i][2]) = {}
         THEN Found("CannotParse", <<>>, <<>>)
         ELSE classify(l, i + 1, vm_fds,
                       Append(vcpu_fds,
                              [idx |-> CHOOSE n \in parse_usize(l[i][2]) : TRUE,
                               fd_num |-> i]))
    ELSE classify(l, i + 1, vm_fds, vcpu_fds)

\* find_vm_fd. listed: whether handle.fds() can list the descriptors.
find_vm_fd(l, listed) ==
    IF ~listed THEN Found("FdsFailed", <<>>, <<>>)
    ELSE LET c == classify(l, 1, <<>>, <<>>) IN
           IF c.result # "Ok" THEN c
           ELSE IF Len(dedup_by_key(c.vcpus)) # Len(c.vcpus)
           THEN Found("DuplicateVcpu", <<>>, <<>>)
           ELSE Found("Ok", c.vm_fds, dedup_by_key(c.vcpus))

\* What get_hypervisor gives: its Result, what find_vm_fd found, and the
\* Hypervisor if one was built (its Tracee starts with proc: None).
Got(result, found, hypervisor) ==
    [result |-> result, found |-> found, hypervisor |-> hypervisor]

\* get_hypervisor, mutated: the check for more than one VM is missing.
get_hypervisor_AnyVm(l, opened, listed) ==
    IF ~opened THEN Got("OpenFailed", "none", {})
    ELSE LET f == find_vm_fd(l, listed) IN
           IF f.result # "Ok" THEN Got("FindFailed", f.result, {})
           ELSE IF Len(f.vm_fds) = 0 THEN Got("NoVm", "Ok", {})
           ELSE IF Len(f.vcpus) = 0 THEN Got("NoVcpus", "Ok", {})
           ELSE Got("Ok", "Ok", {[vm_fd |-> f.vm_fds[1], vcpus |-> f.vcpus,
                                  proc |-> {}]})

\* get_hypervisor, mutated: the Tracee is built with an Injectee.
get_hypervisor_Attached(l, opened, listed) ==
    IF ~opened THEN Got("OpenFailed", "none", {})
    ELSE LET f == find_vm_fd(l, listed) IN
           IF f.result # "Ok" THEN Got("FindFailed", f.result, {})
           ELSE IF Len(f.vm_fds) = 0 THEN Got("NoVm", "Ok", {})
           ELSE IF Len(f.vm_fds) > 1 THEN Got("MultipleVms", "Ok", {})
           ELSE IF Len(f.vcpus) = 0 THEN Got("NoVcpus", "Ok", {})
           ELSE Got("Ok", "Ok", {[vm_fd |-> f.vm_fds[1], vcpus |-> f.vcpus,
                                  proc |-> {1}]})

\* get_hypervisor. opened: whether openpid(pid) succeeds.
get_hypervisor(l, opened, listed) ==
    IF ~opened THEN Got("OpenFailed", "none", {})
    ELSE LET f == find_vm_fd(l, listed) IN
           IF f.result # "Ok" THEN Got("FindFailed", f.result, {})
           ELSE IF Len(f.vm_fds) = 0 THEN Got("NoVm", "Ok", {})
           ELSE IF Len(f.vm_fds) > 1 THEN Got("MultipleVms", "Ok", {})
           ELSE IF Len(f.vcpus) = 0 THEN Got("NoVcpus", "Ok", {})
           ELSE Got("Ok", "Ok", {[vm_fd |-> f.vm_fds[1], vcpus |-> f.vcpus,
                                  proc |-> {}]})

NotCalled == Got("none", "none", {})

\* A call of get_hypervisor on the target.
discover ==
    /\ hv = NotCalled
    /\ \E opened \in BOOLEAN : \E listed \in BOOLEAN :
         hv' = get_hypervisor(fds, opened, listed)
    /\ UNCHANGED <<fds, traceeVars, blockVars, attachVars, concVars>>

\* The hypervisor handle and the device stand for a target whose descriptors
\* are not looked at again.
DiscIdle ==
    /\ fds = <<>>
    /\ hv = NotCalled

DiscInit ==
    /\ fds \in Listings
    /\ hv = NotCalled

(***************************************************************************)
(* attach() and the interposer loop of run_kvm_wrapped                     *)
(***************************************************************************)

\* The addresses a KVM MMIO exit can carry: below, inside and above the
\* device's range.
Addrs == 0..(MmioBase + MmioSize + DEVICE_MAX_MEM + MaxBeyond - 1)

\* The range check of the interposer loop, mutated: the device-specific
\* space behind the VirtIO registers is left out.
InRange_Registers(a) ==
    MmioBase <= a /\ a < MmioBase + MmioSize

\* from <= addr && addr < to, with from = mmio_space.base() and
\* to = from + mmio_space.size() + DEVICE_MAX_MEM.
InRange(a) ==
    MmioBase <= a /\ a < MmioBase + MmioSize + DEVICE_MAX_MEM

\* exit_condition, mutated: the loops end at once.
exit_condition_Always(d) == TRUE

\* exit_condition: Ok(false), whatever the block device's state.
exit_condition(d) == FALSE

Exit(kind, addr, delivered) ==
    [kind |-> kind, addr |-> addr, delivered |-> delivered]

NoExit == Exit("none", 0, FALSE)

\* attach() returns an error: its locals (vm, device) are dropped. The
\* Hypervisor, its Tracee and the Injectee go with them unless another holder
\* of the Arc<Hypervisor> is left: the blkdev-monitor thread keeps
\* device.blkdev, whose Block holds vmm: Arc<Hypervisor>. The threads that
\* were spawned keep running.
Fail ==
    /\ pc' = "Err"
    /\ LET r == detach(proc, live) IN
         IF "blkdev-monitor" \in threads
         THEN UNCHANGED <<proc, live>>
         ELSE proc' = r.proc /\ live' = r.live
    /\ threads' = threads

\* The caller of attach() prints the error and calls std::process::exit(1):
\* the process ends, with it its threads and its hold on the target.
process_exit ==
    /\ pc = "Err"
    /\ pc' = "exited"
    /\ proc' = {}
    /\ live' = {}
    /\ threads' = {}
    /\ UNCHANGED <<lock, hvmems, lastCall, blockVars, discVars,
                   device_ready, shutdown, lastExit, concVars>>

\* kvm::hypervisor::get_hypervisor(opts.pid).
attach_get_hypervisor ==
    /\ pc = "start"
    /\ \E opened \in BOOLEAN : \E listed \in BOOLEAN :
         LET g == get_hypervisor(fds, opened, listed) IN
           /\ hv' = g
           /\ IF g.result = "Ok"
              THEN pc' = "opened" /\ UNCHANGED <<proc, live, threads>>
              ELSE Fail
    /\ UNCHANGED <<fds, lock, hvmems, lastCall, blockVars,
                   device_ready, shutdown, lastExit, concVars>>

\* vm.stop()?.
attach_stop ==
    /\ pc = "opened"
    /\ lock = "free"
    /\ \E ok \in BOOLEAN :
         LET r == attach(proc, live, ok) IN
           /\ lastCall' = Call("stop", r.result, proc, r.created, r.released)
           /\ IF r.result = "Ok"
              THEN /\ proc' = r.proc
                   /\ live' = r.live
                   /\ pc' = "stopped"
                   /\ UNCHANGED threads
              ELSE Fail
    /\ UNCHANGED <<lock, hvmems, blockVars, discVars,
                   device_ready, shutdown, lastExit, concVars>>

\* SubscriberEventManager::new() and Device::new(&vm, ..): the block device
\* is constructed.
attach_device_new ==
    /\ pc = "stopped"
    /\ \E ok \in BOOLEAN :
         IF ok THEN pc' = "device" /\ UNCHANGED <<proc, live, threads>>
         ELSE Fail
    /\ UNCHANGED <<lock, hvmems, lastCall, blockVars, discVars,
                   device_ready, shutdown, lastExit, concVars>>

\* A thread::Builder::spawn of attach(): the thread runs, or attach fails.
Spawn(from, name, to) ==
    /\ pc = from
    /\ \E ok \in BOOLEAN :
         IF ok
         THEN /\ threads' = threads \cup {name}
              /\ pc' = to
              /\ UNCHANGED <<proc, live>>
         ELSE Fail
    /\ UNCHANGED <<lock, hvmems, lastCall, blockVars, discVars,
                   device_ready, shutdown, lastExit, concVars>>

\* event_thread(event_manager)?.
event_thread == Spawn("device", "event-manager", "event_thread")

\* blkdev_monitor_thread(&device)?.
blkdev_monitor_thread == Spawn("event_thread", "blkdev-monitor", "monitor")

\* spawn_stage1(&opts.ssh_args, &device_ready).
spawn_stage1 == Spawn("monitor", "stage1", "stage1")

\* run_kvm_wrapped up to its loop: vm.kvmrun_wrapped calls the closure, which
\* reads the device's MMIO range and calls device_ready.notify().
run_kvm_wrapped ==
    /\ pc = "stage1"
    /\ \E ok \in BOOLEAN :
         IF ok
         THEN /\ device_ready' = TRUE
              /\ pc' = "loop"
              /\ UNCHANGED <<proc, live, threads>>
         ELSE Fail /\ UNCHANGED device_ready
    /\ UNCHANGED <<lock, hvmems, lastCall, blockVars, discVars,
                   shutdown, lastExit, concVars>>

\* What the guest's driver writes to the status register (the steps of the
\* initialisation sequence, or FAILED) and to the driver-features register.
GuestStatus ==
    {{"ACKNOWLEDGE"}, {"ACKNOWLEDGE", "DRIVER"},
     {"ACKNOWLEDGE", "DRIVER", "FEATURES_OK"},
     {"ACKNOWLEDGE", "DRIVER", "FEATURES_OK", "DRIVER_OK"}, {"FAILED"}}
GuestFeatures == {{"VERSION_1"}, {"IN_ORDER"}}

\* The register writes that reach the block device through
\* mmio_mgr.handle_mmio_rw.
mmio_write ==
    \/ \E v \in GuestStatus : write_status_step(v)
    \/ \E v \in GuestStatus : write_status_failed(v)
    \/ write_status_zero
    \/ \E v \in GuestFeatures : write_driver_features(v)

\* One iteration of the loop of run_kvm_wrapped: wrapper.wait_for_ioctl(),
\* the range check, mmio_mgr.handle_mmio_rw, exit_condition. When the loop
\* breaks run_kvm_wrapped returns Ok (pc = "ready") and attach() goes on
\* with vm.resume().
kvm_exit ==
    \/ /\ pc = "loop"
       /\ Fail
       /\ UNCHANGED <<lock, hvmems, lastCall, blockVars, discVars,
                      device_ready, shutdown, lastExit, concVars>>
    \/ /\ pc = "loop"
       /\ lastExit' = Exit("other", 0, FALSE)
       /\ UNCHANGED <<traceeVars, blockVars, discVars,
                      pc, threads, device_ready, shutdown, concVars>>
    \/ /\ pc = "loop"
       /\ \E a \in Addrs :
            /\ ~InRange(a)
            /\ lastExit' = Exit("mmio", a, FALSE)
       /\ pc' = (IF exit_condition(Dev) THEN "ready" ELSE "loop")
       /\ UNCHANGED <<traceeVars, blockVars, discVars,
                      threads, device_ready, shutdown, concVars>>
    \/ /\ pc = "loop"
       /\ \E a \in Addrs :
            /\ InRange(a)
            /\ lastExit' = Exit("mmio", a, TRUE)
       /\ mmio_write
       /\ pc' = (IF exit_condition(Dev) THEN "ready" ELSE "loop")
       /\ UNCHANGED <<threads, device_ready, shutdown, concVars>>
    \/ /\ pc = "loop"
       /\ \E a \in Addrs :
            /\ InRange(a)
            /\ lastExit' = Exit("mmio", a, TRUE)
       /\ pc' = (IF exit_condition(Dev) THEN "ready" ELSE "loop")
       /\ UNCHANGED <<traceeVars, blockVars, discVars,
                      threads, device_ready, shutdown, concVars>>
    \/ /\ pc = "loop"
       /\ \E a \in Addrs :
            /\ InRange(a)
            /\ lastExit' = Exit("mmio", a, TRUE)
       /\ Fail
       /\ UNCHANGED <<lock, hvmems, lastCall, blockVars, discVars,
                      device_ready, shutdown, concVars>>

\* The event-manager thread: loop { event_mgr.run() }, with no way out.
event_manager_run ==
    /\ "event-manager" \in threads
    /\ UNCHANGED vars

\* The blkdev-monitor thread: it logs the device's state once a second and
\* ends when exit_condition holds.
blkdev_monitor ==
    /\ "blkdev-monitor" \in threads
    /\ threads' = (IF exit_condition(Dev) THEN threads \ {"blkdev-monitor"}
                   ELSE threads)
    /\ UNCHANGED <<traceeVars, blockVars, discVars,
                   pc, device_ready, shutdown, lastExit, concVars>>

\* The stage1 thread, mutated: it does not wait for the device.
stage1_NoWait ==
    /\ "stage1" \in threads
    /\ threads' = threads \ {"stage1"}
    /\ UNCHANGED <<traceeVars, blockVars, discVars,
                   pc, device_ready, shutdown, lastExit, concVars>>

\* The stage1 thread: device_ready.wait(), then the ssh command that loads
\* the guest driver, then the thread returns.
stage1 ==
    /\ "stage1" \in threads
    /\ device_ready
    /\ threads' = threads \ {"stage1"}
    /\ UNCHANGED <<traceeVars, blockVars, discVars,
                   pc, device_ready, shutdown, lastExit, concVars>>

\* A shutdown signal is raised while attach() runs.
raise_shutdown ==
    /\ pc \notin {"none", "Err", "exited"}
    /\ ~shutdown
    /\ shutdown' = TRUE
    /\ UNCHANGED <<traceeVars, blockVars, discVars,
                   pc, threads, device_ready, lastExit, concVars>>

\* No attach() runs.
AttachIdle ==
    /\ pc = "none"
    /\ threads = {}
    /\ device_ready = FALSE
    /\ shutdown = FALSE
    /\ lastExit = NoExit

\* attach() is entered on a target with one VM and one VCPU, or on one that
\* is no hypervisor.
AttachInit ==
    /\ fds \in {<< <<"kvm-vm">>, <<"kvm-vcpu", <<0>>>> >>, << <<"other">> >>}
    /\ hv = NotCalled
    /\ pc = "start"
    /\ threads = {}
    /\ device_ready = FALSE
    /\ shutdown = FALSE
    /\ lastExit = NoExit

(***************************************************************************)
(* Threads and lock guards                                                 *)
(***************************************************************************)

NoThreads == [t \in {} |-> "idle"]

\* Mutex::lock, mutated: the lock is handed out whoever holds it.
CanLock_Always(g, l) == TRUE

\* Mutex::lock returns once no other guard of the mutex exists.
CanLock(g, l) == ~\E x \in g : x[2] = l

\* The guard of lock l that thread t holds is dropped.
Unlock(g, t, l) == {x \in g : ~(x[1] = t /\ x[2] = l)}

NoRemote == [op |-> "none"]

\* No thread's steps are told apart: each call is one step.
ConcIdle ==
    /\ tpc = NoThreads
    /\ guards = {}
    /\ waiting = {}
    /\ lastRemote = NoRemote

(***************************************************************************)
(* DeviceReady: the handshake between run_kvm_wrapped and the stage1 thread*)
(***************************************************************************)

\* The thread that calls notify() (run_kvm_wrapped, on the main thread) and
\* the threads that call wait().
Notifier == 0
Waiters == 1..MaxWaiters

\* The loop condition of wait(), mutated: wait() never blocks.
KeepWaiting_Never(started) == FALSE

\* while !*started.
KeepWaiting(started) == ~started

\* wait(): self.lock.lock(), and the re-acquisition of the mutex in which
\* condvar.wait ends once the thread has been woken.
wait_lock(t) ==
    /\ tpc[t] \in {"idle", "woken"}
    /\ CanLock(guards, "DeviceReady")
    /\ guards' = guards \cup {<<t, "DeviceReady", "mutex">>}
    /\ tpc' = [tpc EXCEPT ![t] = "check"]
    /\ UNCHANGED <<waiting, lastRemote, traceeVars, blockVars, discVars, attachVars>>

\* wait(): the test of the flag under the mutex. condvar.wait(started)
\* releases the mutex and blocks in one step; otherwise wait() returns and
\* the guard is dropped.
wait_check(t) ==
    /\ tpc[t] = "check"
    /\ guards' = Unlock(guards, t, "DeviceReady")
    /\ IF KeepWaiting(device_ready)
       THEN /\ waiting' = waiting \cup {t}
            /\ tpc' = [tpc EXCEPT ![t] = "blocked"]
       ELSE /\ waiting' = waiting
            /\ tpc' = [tpc EXCEPT ![t] = "returned"]
    /\ UNCHANGED <<lastRemote, traceeVars, blockVars, discVars, attachVars>>

\* Condvar::wait may wake up without a notification.
spurious_wakeup(t) ==
    /\ t \in waiting
    /\ waiting' = waiting \ {t}
    /\ tpc' = [tpc EXCEPT ![t] = "woken"]
    /\ UNCHANGED <<guards, lastRemote, traceeVars, blockVars, discVars, attachVars>>

\* notify(): self.lock.lock().
notify_lock ==
    /\ tpc[Notifier] = "idle"
    /\ CanLock(guards, "DeviceReady")
    /\ guards' = guards \cup {<<Notifier, "DeviceReady", "mutex">>}
    /\ tpc' = [tpc EXCEPT ![Notifier] = "locked"]
    /\ UNCHANGED <<waiting, lastRemote, traceeVars, blockVars, discVars, attachVars>>

\* notify(): *started = true.
notify_set ==
    /\ tpc[Notifier] = "locked"
    /\ device_ready' = TRUE
    /\ tpc' = [tpc EXCEPT ![Notifier] = "set"]
    /\ UNCHANGED <<guards, waiting, lastRemote, traceeVars, blockVars, discVars,
                   pc, threads, shutdown, lastExit>>

\* notify(): self.condvar.notify_all() wakes every thread blocked in
\* condvar.wait.
notify_all ==
    /\ tpc[Notifier] = "set"
    /\ waiting' = {}
    /\ tpc' = [t \in DOMAIN tpc |->
                 IF t = Notifier THEN "notified"
                 ELSE IF t \in waiting THEN "woken" ELSE tpc[t]]
    /\ UNCHANGED <<guards, lastRemote, traceeVars, blockVars, discVars, attachVars>>

\* notify(): Ok(()) drops the guard.
notify_return ==
    /\ tpc[Notifier] = "notified"
    /\ guards' = Unlock(guards, Notifier, "DeviceReady")
    /\ tpc' = [tpc EXCEPT ![Notifier] = "done"]
    /\ UNCHANGED <<waiting, lastRemote, traceeVars, blockVars, discVars, attachVars>>

\* DeviceReady::new(): lock: Mutex::new(false), no thread inside a call.
LatchInit ==
    /\ tpc = [t \in {Notifier} \cup Waiters |-> "idle"]
    /\ guards = {}
    /\ waiting = {}
    /\ lastRemote = NoRemote

(***************************************************************************)
(* Loader::write_stage1_args: the place of Stage1Args in its loadable      *)
(***************************************************************************)

\* usize arithmetic wraps modulo 2^UsizeBits where the build does not check
\* it.
UsizeMod == 2 ^ UsizeBits

\* a - b in usize: with overflow checks an underflow panics, without them
\* it wraps.
usize_sub(a, b, checks) ==
    [value |-> (a - b) % UsizeMod,
     underflow |-> a < b,
     panic |-> checks /\ a < b]

\* The loadable that contains VMSH_STAGE1_ARGS: its content (the bytes of
\* the ELF segment, which start virt_offset bytes into the mapping), and the
\* length of the mapping.
Loadables ==
    UNION {[content : UNION {[1..n -> Bytes] : n \in 0..(len - off)},
            virt_offset : {off}, len : {len}] :
           <<off, len>> \in (0..1) \X (1..MaxMapLen)}

\* n zero bytes.
Zeros(n) == [i \in 1..n |-> 0]

\* Vec::resize(new_len, 0) on a content shorter than new_len.
resize(content, new_len) == content \o Zeros(new_len - Len(content))

StageCall(result, l, rel, start, end, content, msg) ==
    [op |-> "write_stage1_args", result |-> result, pre |-> {},
     created |-> FALSE, released |-> FALSE,
     loadable |-> l, rel |-> rel, start |-> start, end |-> end,
     content |-> content, underflow |-> msg.underflow, reported |-> msg.value]

NoSub == [value |-> 0, underflow |-> FALSE, panic |-> FALSE]

\* Loader::write_stage1_args, the part that places Stage1Args: l is the
\* loadable find_loadable returns for the address of VMSH_STAGE1_ARGS, rel
\* that address relative to the start of the mapping, checks whether the
\* build checks integer overflow.
write_stage1_args(l, rel, checks) ==
    LET start == rel - l.virt_offset
        end == start + ArgsSize
    IN  IF end > Len(l.content)
        THEN IF end > l.len
             THEN LET msg == usize_sub(l.len, end, checks) IN
                    StageCall(IF msg.panic THEN "Panic" ELSE "Err",
                              l, rel, start, end, l.content, msg)
             ELSE StageCall("Ok", l, rel, start, end, resize(l.content, end), NoSub)
        ELSE StageCall("Ok", l, rel, start, end, l.content, NoSub)

\* load_binary calls write_stage1_args on the loadables that binary.load
\* built; the symbol lies in the segment of its loadable.
load_binary ==
    /\ \E l \in Loadables : \E rel \in l.virt_offset..(l.len - 1) :
       \E checks \in BOOLEAN :
         lastCall' = write_stage1_args(l, rel, checks)
    /\ UNCHANGED <<proc, live, lock, hvmems, blockVars, discVars, attachVars, concVars>>

(***************************************************************************)
(* The mutex around the block device: Arc<Mutex<Block>>                    *)
(***************************************************************************)

\* The threads that get at the Block: the interposer (handle_mmio_rw in the
\* loop of run_kvm_wrapped) and the blkdev-monitor thread.
BlkThreads == {"interposer", "blkdev-monitor"}

\* The threads that are inside the Block: they have locked it and not yet
\* dropped the guard.
Inside == {t \in DOMAIN tpc : tpc[t] \in {"locked", "accessed"}}

\* A thread calls lock() on the device's mutex.
blk_want(t) ==
    /\ tpc[t] = "idle"
    /\ tpc' = [tpc EXCEPT ![t] = "want"]
    /\ UNCHANGED <<guards, waiting, lastRemote,
                   traceeVars, blockVars, discVars, attachVars>>

\* lock() returns the guard.
blk_lock(t) ==
    /\ tpc[t] = "want"
    /\ CanLock(guards, "blkdev")
    /\ guards' = guards \cup {<<t, "blkdev", "mutex">>}
    /\ tpc' = [tpc EXCEPT ![t] = "locked"]
    /\ UNCHANGED <<waiting, lastRemote,
                   traceeVars, blockVars, discVars, attachVars>>

\* The interposer's access: MutDeviceMmio::mmio_write on the locked Block.
interposer_write ==
    /\ tpc["interposer"] = "locked"
    /\ mmio_write
    /\ tpc' = [tpc EXCEPT !["interposer"] = "accessed"]
    /\ UNCHANGED <<guards, waiting, lastRemote, attachVars>>

\* The interposer's access: MutDeviceMmio::mmio_read on the locked Block.
interposer_read ==
    /\ tpc["interposer"] = "locked"
    /\ tpc' = [tpc EXCEPT !["interposer"] = "accessed"]
    /\ UNCHANGED <<guards, waiting, lastRemote,
                   traceeVars, blockVars, discVars, attachVars>>

\* The blkdev-monitor reads the device's type, features, interrupt status,
\* status, config generation and selected queue through its guard.
monitor_read ==
    /\ tpc["blkdev-monitor"] = "locked"
    /\ tpc' = [tpc EXCEPT !["blkdev-monitor"] = "accessed"]
    /\ UNCHANGED <<guards, waiting, lastRemote,
                   traceeVars, blockVars, discVars, attachVars>>

\* The guard goes out of scope.
blk_unlock(t) ==
    /\ tpc[t] = "accessed"
    /\ guards' = Unlock(guards, t, "blkdev")
    /\ tpc' = [tpc EXCEPT ![t] = "idle"]
    /\ UNCHANGED <<waiting, lastRemote,
                   traceeVars, blockVars, discVars, attachVars>>

\* Whether a write of the status register by the driver would make the
\* device call into the event loop: _activate gets as far as
\* endpoint.call_blocking(add_subscriber), or _reset finds a sub_id to remove.
WouldCall(d) ==
    \/ /\ d.status = {"ACKNOWLEDGE", "DRIVER", "FEATURES_OK"}
       /\ ~d.device_activated
       /\ "VERSION_1" \in d.driver_features
       /\ \E n \in 1..MaxSubs : n \notin d.subscribers
    \/ d.sub_id # {}

\* Whether the register write recorded in m called into the event loop;
\* preSub is sub_id before the write.
Called(m, preSub) ==
    \/ m.call = "activate" /\ m.result \in {"Ok", "Endpoint"}
    \/ m.call = "reset" /\ preSub # {}

\* What the event-manager thread needs in order to serve a call sent to its
\* endpoint, mutated: it needs the device's mutex.
CanServe_DeviceMutex(g) == CanLock(g, "blkdev")

\* What the event-manager thread needs in order to serve a call sent to its
\* endpoint: event_mgr.run() and the subscribers it runs take neither the
\* device's mutex nor the MMIO manager's.
CanServe(g) == TRUE

\* The interposer's register write that makes no call into the event loop.
ev_write ==
    /\ interposer_write
    /\ ~Called(lastMmio', sub_id)

\* endpoint.call_blocking: the interposer, inside the locked device, sends
\* the closure to the event-manager thread and waits for the reply.
call_blocking ==
    /\ tpc["interposer"] = "locked"
    /\ WouldCall(Dev)
    /\ waiting' = waiting \cup {"interposer"}
    /\ tpc' = [tpc EXCEPT !["interposer"] = "calling"]
    /\ UNCHANGED <<guards, lastRemote,
                   traceeVars, blockVars, discVars, attachVars>>

\* The event-manager thread: event_mgr.run() takes the closure from the
\* endpoint, runs it and sends the reply (the result, or the error).
event_serve ==
    /\ "interposer" \in waiting
    /\ CanServe(guards)
    /\ waiting' = waiting \ {"interposer"}
    /\ tpc' = [tpc EXCEPT !["interposer"] = "replied"]
    /\ UNCHANGED <<guards, lastRemote,
                   traceeVars, blockVars, discVars, attachVars>>

\* call_blocking returns: _activate or _reset goes on with the reply.
call_return ==
    /\ tpc["interposer"] = "replied"
    /\ mmio_write
    /\ Called(lastMmio', sub_id)
    /\ tpc' = [tpc EXCEPT !["interposer"] = "accessed"]
    /\ UNCHANGED <<guards, waiting, lastRemote, attachVars>>

\* run_kvm_wrapped is in its loop: the event-manager thread and the
\* blkdev-monitor thread run, the interposer holds device.mmio_mgr.
EventInit ==
    /\ tpc = [t \in BlkThreads \cup {"event-manager"} |-> "idle"]
    /\ guards = {<<"interposer", "mmio_mgr", "mutex">>}
    /\ waiting = {}
    /\ lastRemote = NoRemote

\* Block::new has returned the Arc<Mutex<Block>>; nobody has locked it.
BlkLockInit ==
    /\ tpc = [t \in BlkThreads |-> "idle"]
    /\ guards = {}
    /\ waiting = {}
    /\ lastRemote = NoRemote

(***************************************************************************)
(* Hypervisor.tracee: Arc<RwLock<Tracee>> between concurrent callers       *)
(***************************************************************************)

\* The threads that call into one Hypervisor and its HvMems.
Callers == 1..MaxCallers

\* The operations, and the lock on Hypervisor.tracee each one takes:
\* tracee.write(), tracee.read(), or none.
LockMode ==
    [stop |-> "write", resume |-> "write", alloc_mem_padded |-> "write",
     HvMem_drop |-> "write", get_maps |-> "read",
     HvMem_write |-> "none", HvMem_read |-> "none"]

LockOps == DOMAIN LockMode

\* RwLock::read returns when no writer holds the lock.
CanRead(g, l) == ~\E x \in g : x[2] = l /\ x[3] = "write"

\* RwLock::write / RwLock::read / no lock at all.
CanAcquire(g, l, mode) ==
    CASE mode = "write" -> CanLock(g, l)
      [] mode = "read" -> CanRead(g, l)
      [] OTHER -> TRUE

\* Where a caller is: outside any operation, or in operation op on HvMem h
\* (0: no HvMem) at: "in" (has its lock, if it takes one), "mid" (stop and
\* resume: the transition of the tracee is under way), "done" (about to
\* drop its guard).
At(op, h, at) == [op |-> op, h |-> h, at |-> at]

Idle == At("idle", 0, "idle")

\* The HvMems some caller is working on. A HvMem that is borrowed cannot be
\* dropped.
Borrowed == {tpc[c].h : c \in DOMAIN tpc}

\* The callers whose stop() or resume() is in its transition.
Transiting == {c \in DOMAIN tpc : tpc[c].op \in {"stop", "resume"} /\ tpc[c].at = "mid"}

\* The lock a caller holds on the tracee.
Held(c) ==
    IF <<c, "tracee", "write">> \in guards THEN "write"
    ELSE IF <<c, "tracee", "read">> \in guards THEN "read"
    ELSE "none"

\* What an operation did to the target: a syscall executed in it, a write
\* or a read of its memory, or an attach/detach transition; under which
\* lock; and which other callers were in a transition at that moment.
RemoteOp(c, op, syscall, memwrite, memread, transition) ==
    [op |-> op, caller |-> c, syscall |-> syscall, memwrite |-> memwrite,
     memread |-> memread, transition |-> transition, mode |-> Held(c),
     transiting |-> Transiting \ {c}]

\* A caller enters an operation and takes the operation's lock.
lk_begin(c, op, h) ==
    /\ tpc[c] = Idle
    /\ IF op \in {"HvMem_drop", "HvMem_write", "HvMem_read"}
       THEN h \in Alive /\ (op = "HvMem_drop" => h \notin Borrowed)
       ELSE h = 0
    /\ CanAcquire(guards, "tracee", LockMode[op])
    /\ guards' = IF LockMode[op] = "none" THEN guards
                 ELSE guards \cup {<<c, "tracee", LockMode[op]>>}
    /\ tpc' = [tpc EXCEPT ![c] = At(op, h, "in")]
    /\ UNCHANGED <<waiting, lastRemote,
                   traceeVars, blockVars, discVars, attachVars>>

\* stop() / resume(): tracee.attach() / tracee.detach() starts.
lk_transition_start(c) ==
    /\ tpc[c].op \in {"stop", "resume"}
    /\ tpc[c].at = "in"
    /\ tpc' = [tpc EXCEPT ![c].at = "mid"]
    /\ UNCHANGED <<guards, waiting, lastRemote,
                   traceeVars, blockVars, discVars, attachVars>>

\* stop(): tracee.attach() returns.
lk_stop(c) ==
    /\ tpc[c] = At("stop", 0, "mid")
    /\ \E ok \in BOOLEAN :
         LET r == attach(proc, live, ok) IN
           /\ proc' = r.proc
           /\ live' = r.live
    /\ lastRemote' = RemoteOp(c, "stop", FALSE, FALSE, FALSE, TRUE)
    /\ tpc' = [tpc EXCEPT ![c].at = "done"]
    /\ UNCHANGED <<guards, waiting, lock, hvmems, lastCall,
                   blockVars, discVars, attachVars>>

\* resume(): tracee.detach() returns.
lk_resume(c) ==
    /\ tpc[c] = At("resume", 0, "mid")
    /\ LET r == detach(proc, live) IN
         /\ proc' = r.proc
         /\ live' = r.live
    /\ lastRemote' = RemoteOp(c, "resume", FALSE, FALSE, FALSE, TRUE)
    /\ tpc' = [tpc EXCEPT ![c].at = "done"]
    /\ UNCHANGED <<guards, waiting, lock, hvmems, lastCall,
                   blockVars, discVars, attachVars>>

\* alloc_mem_padded(): tracee.mmap(size) on the Injectee.
lk_alloc(c) ==
    /\ tpc[c] = At("alloc_mem_padded", 0, "in")
    /\ IF try_get_proc(proc) = "Ok"
       THEN /\ \E mapped \in BOOLEAN :
                 IF mapped /\ Cardinality(DOMAIN hvmems) < MaxRegions
                 THEN LET ptr == Cardinality(DOMAIN hvmems) + 1 IN
                        hvmems' = [h \in DOMAIN hvmems \cup {ptr} |->
                                     IF h = ptr THEN NewHvMem(MaxTSize, MaxTSize)
                                     ELSE hvmems[h]]
                 ELSE hvmems' = hvmems
            /\ lastRemote' = RemoteOp(c, "alloc_mem_padded", TRUE, FALSE, FALSE, FALSE)
       ELSE UNCHANGED <<hvmems, lastRemote>>
    /\ tpc' = [tpc EXCEPT ![c].at = "done"]
    /\ UNCHANGED <<guards, waiting, proc, live, lock, lastCall,
                   blockVars, discVars, attachVars>>

\* impl Drop for HvMem: tracee.munmap(self.ptr, ..).
lk_drop(c) ==
    /\ tpc[c].op = "HvMem_drop"
    /\ tpc[c].at = "in"
    /\ hvmems' = [hvmems EXCEPT ![tpc[c].h] = munmap(proc, hvmems[tpc[c].h])]
    /\ IF try_get_proc(proc) = "Ok"
       THEN lastRemote' = RemoteOp(c, "HvMem_drop", TRUE, FALSE, FALSE, FALSE)
       ELSE lastRemote' = lastRemote
    /\ tpc' = [tpc EXCEPT ![c].at = "done", ![c].h = 0]
    /\ UNCHANGED <<guards, waiting, proc, live, lock, lastCall,
                   blockVars, discVars, attachVars>>

\* Hypervisor::get_maps -> memslots::get_maps: tracee.check_extension(0),
\* the KVM_CHECK_EXTENSION ioctl injected into the target, then the read of
\* /proc/<pid>/maps.
lk_get_maps(c) ==
    /\ tpc[c] = At("get_maps", 0, "in")
    /\ \E ret \in SyscallResults :
         LET r == check_extension(proc, ret) IN
           lastRemote' = RemoteOp(c, "get_maps", r.syscall, FALSE, FALSE, FALSE)
    /\ tpc' = [tpc EXCEPT ![c].at = "done"]
    /\ UNCHANGED <<guards, waiting, traceeVars, blockVars, discVars, attachVars>>

\* HvMem::write: process_write(self.pid, self.ptr, val).
lk_write(c) ==
    /\ tpc[c].op = "HvMem_write"
    /\ tpc[c].at = "in"
    /\ LET h == tpc[c].h IN
       \E val \in Values(hvmems[h].tsize) :
       \E k \in KernelCopies(hvmems[h].tsize) :
         LET w == process_write(hvmems[h].tsize, hvmems[h].mem, val, k) IN
           hvmems' = [hvmems EXCEPT
                        ![h].mem = w.mem,
                        ![h].wrote = IF w.result = "Ok" THEN "ok" ELSE "failed",
                        ![h].wval = IF w.result = "Ok" THEN val
                                    ELSE Zeroed(hvmems[h].tsize)]
    /\ lastRemote' = RemoteOp(c, "HvMem_write", FALSE, TRUE, FALSE, FALSE)
    /\ tpc' = [tpc EXCEPT ![c].at = "done", ![c].h = 0]
    /\ UNCHANGED <<guards, waiting, proc, live, lock, lastCall,
                   blockVars, discVars, attachVars>>

\* HvMem::read: process_read(self.pid, self.ptr).
lk_read(c) ==
    /\ tpc[c].op = "HvMem_read"
    /\ tpc[c].at = "in"
    /\ lastRemote' = RemoteOp(c, "HvMem_read", FALSE, FALSE, TRUE, FALSE)
    /\ tpc' = [tpc EXCEPT ![c].at = "done", ![c].h = 0]
    /\ UNCHANGED <<guards, waiting, traceeVars, blockVars, discVars, attachVars>>

\* The operation returns; its guard, if it has one, is dropped.
lk_end(c) ==
    /\ tpc[c].at = "done"
    /\ guards' = Unlock(guards, c, "tracee")
    /\ tpc' = [tpc EXCEPT ![c] = Idle]
    /\ UNCHANGED <<waiting, lastRemote,
                   traceeVars, blockVars, discVars, attachVars>>

\* get_hypervisor has returned; no caller is in an operation.
LockInit ==
    /\ tpc = [c \in Callers |-> Idle]
    /\ guards = {}
    /\ waiting = {}
    /\ lastRemote = NoRemote

(***************************************************************************)
(* Specifications                                                          *)
(***************************************************************************)

\* The hypervisor handle, beside a block device nothing has written to yet.
Init ==
    /\ TraceeInit
    /\ BlockInit
    /\ read_only = FALSE
    /\ device_features = NewDeviceFeatures(FALSE, FALSE)
    /\ use_ioregionfd = FALSE
    /\ DiscIdle
    /\ AttachIdle
    /\ ConcIdle

Next ==
    \/ stop
    \/ resume
    \/ \E t \in TSizes : \E s \in PadSizes : alloc_mem_padded(t, s)
    \/ \E t \in TSizes : alloc_mem(t)
    \/ \E h \in DOMAIN hvmems : HvMem_drop(h)
    \/ \E t \in TSizes : vm_add_mem(t)
    \/ tracee_call

Spec == Init /\ [][Next]_vars

\* The memory slots of the VM: slots are added for types of every size and
\* the slots that KVM holds are read back, while the hypervisor is stopped
\* and resumed.
InitSlots == Init

NextSlots ==
    \/ stop
    \/ resume
    \/ \E t \in SlotTSizes : vm_add_mem(t)
    \/ \E used \in UsedSlots : \E env \in MapsEnvs : \E ret \in SyscallResults :
         get_maps(used, env, ret)

SpecSlots == InitSlots /\ [][NextSlots]_vars

\* The typed memory of the target: regions are allocated, written, read and
\* dropped while the hypervisor is stopped and resumed.
MemSizes == 1..MaxMemSize

InitMem == Init

NextMem ==
    \/ stop
    \/ resume
    \/ /\ Cardinality(DOMAIN hvmems) < MaxRegions
       /\ \E t \in MemSizes : \E s \in 0..MaxMemSize : alloc_mem_padded(t, s)
    \/ \E h \in DOMAIN hvmems : HvMem_write(h)
    \/ \E h \in DOMAIN hvmems : HvMem_read(h)
    \/ \E h \in DOMAIN hvmems : HvMem_drop(h)
    \/ \E t \in TSizes : vm_add_mem(t)

SpecMem == InitMem /\ [][NextMem]_vars

\* The block device between the interposer and the blkdev-monitor thread.
InitMmio ==
    /\ TraceeInit
    /\ BlockInit
    /\ read_only = FALSE
    /\ device_features = NewDeviceFeatures(FALSE, FALSE)
    /\ use_ioregionfd = FALSE
    /\ DiscIdle
    /\ AttachIdle
    /\ BlkLockInit

NextMmio ==
    \/ \E t \in BlkThreads : blk_want(t)
    \/ \E t \in BlkThreads : blk_lock(t)
    \/ interposer_write
    \/ interposer_read
    \/ monitor_read
    \/ \E t \in BlkThreads : blk_unlock(t)

SpecMmio == InitMmio /\ [][NextMmio]_vars

\* The block device between the interposer, the blkdev-monitor thread and
\* the event-manager thread that serves the device's calls.
InitEvent ==
    /\ TraceeInit
    /\ BlockInit
    /\ read_only = FALSE
    /\ device_features = NewDeviceFeatures(FALSE, FALSE)
    /\ use_ioregionfd = FALSE
    /\ DiscIdle
    /\ AttachIdle
    /\ EventInit

NextEvent ==
    \/ \E t \in BlkThreads : blk_want(t)
    \/ \E t \in BlkThreads : blk_lock(t)
    \/ ev_write
    \/ interposer_read
    \/ monitor_read
    \/ call_blocking
    \/ event_serve
    \/ call_return
    \/ \E t \in BlkThreads : blk_unlock(t)

SpecEvent == InitEvent /\ [][NextEvent]_vars

\* The event-manager thread loops on event_mgr.run() for ever, and the
\* interposer goes on when it can.
SpecEventFair ==
    /\ SpecEvent
    /\ WF_vars(event_serve)
    /\ WF_vars(call_return)

\* The loader of the stage1 binary.
InitLoader == Init

NextLoader == load_binary

SpecLoader == InitLoader /\ [][NextLoader]_vars

\* One Hypervisor and its HvMems between concurrent callers.
InitLock ==
    /\ TraceeInit
    /\ BlockInit
    /\ read_only = FALSE
    /\ device_features = NewDeviceFeatures(FALSE, FALSE)
    /\ use_ioregionfd = FALSE
    /\ DiscIdle
    /\ AttachIdle
    /\ LockInit

NextLock ==
    \/ \E c \in Callers : \E op \in LockOps : \E h \in 0..MaxRegions :
         lk_begin(c, op, h)
    \/ \E c \in Callers : lk_transition_start(c)
    \/ \E c \in Callers : lk_stop(c)
    \/ \E c \in Callers : lk_resume(c)
    \/ \E c \in Callers : lk_alloc(c)
    \/ \E c \in Callers : lk_drop(c)
    \/ \E c \in Callers : lk_get_maps(c)
    \/ \E c \in Callers : lk_write(c)
    \/ \E c \in Callers : lk_read(c)
    \/ \E c \in Callers : lk_end(c)

SpecLock == InitLock /\ [][NextLock]_vars

\* DeviceReady between a thread that calls notify() once and threads that
\* call wait() once each, at any time.
InitLatch ==
    /\ TraceeInit
    /\ BlockInit
    /\ read_only = FALSE
    /\ device_features = NewDeviceFeatures(FALSE, FALSE)
    /\ use_ioregionfd = FALSE
    /\ DiscIdle
    /\ AttachIdle
    /\ LatchInit

waiter(t) ==
    \/ wait_lock(t)
    \/ wait_check(t)

notifier ==
    \/ notify_lock
    \/ notify_set
    \/ notify_all
    \/ notify_return

NextLatch ==
    \/ \E t \in Waiters : wait_lock(t)
    \/ \E t \in Waiters : wait_check(t)
    \/ \E t \in Waiters : spurious_wakeup(t)
    \/ notify_lock
    \/ notify_set
    \/ notify_all
    \/ notify_return

SpecLatch == InitLatch /\ [][NextLatch]_vars

\* Every thread that can take a step eventually takes one; a spurious
\* wake-up need never happen.
SpecLatchFair ==
    /\ SpecLatch
    /\ WF_vars(notifier)
    /\ \A t \in Waiters : WF_vars(waiter(t))

\* The block device, beside a hypervisor handle nothing is called on.
InitBlock == TraceeInit /\ BlockInit /\ DiscIdle /\ AttachIdle /\ ConcIdle

NextBlock ==
    \/ (\E v \in SUBSET StatusBits : write_status_step(v)) /\ UNCHANGED <<attachVars, concVars>>
    \/ (\E v \in SUBSET StatusBits : write_status_failed(v)) /\ UNCHANGED <<attachVars, concVars>>
    \/ write_status_zero /\ UNCHANGED <<attachVars, concVars>>
    \/ (\E v \in SUBSET FeatureBits : write_driver_features(v))
           /\ UNCHANGED <<attachVars, concVars>>
    \/ (\E v \in QueueVals : write_queue_notify(v))
           /\ UNCHANGED <<attachVars, concVars>>

SpecBlock == InitBlock /\ [][NextBlock]_vars

\* get_hypervisor on every listing of the target's descriptors.
InitDiscover ==
    /\ TraceeInit
    /\ BlockInit
    /\ read_only = FALSE
    /\ device_features = NewDeviceFeatures(FALSE, FALSE)
    /\ use_ioregionfd = FALSE
    /\ DiscInit
    /\ AttachIdle
    /\ ConcIdle

NextDiscover == discover

SpecDiscover == InitDiscover /\ [][NextDiscover]_vars

\* attach(): its main thread, the threads it spawns, the KVM exits of the
\* guest and the shutdown signal.
InitAttach ==
    /\ TraceeInit
    /\ BlockInit
    /\ read_only = FALSE
    /\ device_features = NewDeviceFeatures(FALSE, FALSE)
    /\ use_ioregionfd = FALSE
    /\ AttachInit
    /\ ConcIdle

NextAttach ==
    \/ attach_get_hypervisor
    \/ attach_stop
    \/ attach_device_new
    \/ event_thread
    \/ blkdev_monitor_thread
    \/ spawn_stage1
    \/ run_kvm_wrapped
    \/ kvm_exit
    \/ event_manager_run
    \/ blkdev_monitor
    \/ stage1
    \/ raise_shutdown
    \/ process_exit

SpecAttach == InitAttach /\ [][NextAttach]_vars

\* Every thread that can take a step eventually takes one, and the guest
\* keeps exiting to the interposer.
SpecAttachFair == SpecAttach /\ WF_vars(NextAttach)

(***************************************************************************)
(* Properties of the hypervisor handle (checked under Spec)                *)
(***************************************************************************)

\* C1: when resume() (Tracee::detach) returns, the target's threads run
\* again: unless the tracee lock is poisoned, which no sequence of stop and
\* resume calls brings about, resume returns Ok, Tracee.proc is None and no
\* injectee session is left that keeps the target stopped.
C1_ResumeLeavesTargetRunning ==
    lastCall.op = "resume" =>
        \/ lastCall.result = "Poisoned" /\ lock = "poisoned"
        \/ lastCall.result = "Ok" /\ proc = {} /\ TargetRunning

\* C1, its case: a resume that found the tracee attached (target stopped)
\* has returned, and the target runs.
C1_Witness ==
    /\ lastCall.op = "resume"
    /\ lastCall.result = "Ok"
    /\ lastCall.pre # {}
    /\ TargetRunning

\* C7 as stated: every HvMem covers at least size_of::<T>() bytes, and once
\* dropped it has been unmapped in the target exactly once, whatever the
\* tracee's attach state was at the drop.
C7_UnmappedOnceAtEveryDrop ==
    \A h \in DOMAIN hvmems :
        /\ hvmems[h].size >= hvmems[h].tsize
        /\ hvmems[h].state # "alive" => hvmems[h].unmaps = 1

\* C7, amended: every HvMem covers at least size_of::<T>() bytes; its drop
\* issues one remote munmap if it finds the tracee attached (and the lock not
\* poisoned) and none otherwise, and no HvMem is ever unmapped twice or
\* before its drop.
C7_UnmappedOnceIfAttachedAtDrop ==
    \A h \in DOMAIN hvmems :
        /\ hvmems[h].size >= hvmems[h].tsize
        /\ hvmems[h].unmaps = (IF hvmems[h].state = "attached" THEN 1 ELSE 0)

\* C7, its case: one padded HvMem was dropped with the tracee attached and
\* another with the tracee detached.
C7_Witness ==
    \E h \in DOMAIN hvmems : \E g \in DOMAIN hvmems :
        /\ hvmems[h].state = "attached"
        /\ hvmems[h].size > hvmems[h].tsize
        /\ hvmems[g].state = "detached"

\* C9: the tracee holds at most one injectee session, and it is the only
\* session there is; stop() (Tracee::attach) on a tracee that is already
\* attached returns Ok, creates no session and leaves the existing one alone.
C9_AttachIdempotent ==
    /\ Cardinality(proc) <= 1
    /\ live = proc
    /\ (lastCall.op = "stop" /\ lastCall.pre # {} /\ lastCall.result # "Poisoned") =>
           /\ lastCall.result = "Ok"
           /\ ~lastCall.created
           /\ ~lastCall.released
           /\ proc = lastCall.pre

\* C9, its case: stop() has returned Ok on a tracee that was attached.
C9_Witness ==
    /\ lastCall.op = "stop"
    /\ lastCall.pre # {}
    /\ lastCall.result = "Ok"
    /\ proc # {}

\* C10: resume() (Tracee::detach) on a tracee that is already detached
\* raises no error, leaves the tracee detached and does nothing to the
\* target: no session is created or released, the target keeps running.
C10_DetachIdempotent ==
    (lastCall.op = "resume" /\ lastCall.pre = {} /\ lastCall.result # "Poisoned") =>
        /\ lastCall.result = "Ok"
        /\ proc = {}
        /\ TargetRunning
        /\ ~lastCall.created
        /\ ~lastCall.released

\* C10, its case: resume() has returned on a tracee that was detached.
C10_Witness ==
    /\ lastCall.op = "resume"
    /\ lastCall.pre = {}
    /\ lastCall.result = "Ok"

\* The Tracee methods that execute a syscall in the target, by the public
\* operation that reaches them (mmap through alloc_mem_padded, munmap
\* through the destructor of HvMem).
RemoteOps == {"vm_ioctl", "vm_ioctl_with_ref", "vcpu_ioctl", "check_extension",
              "alloc_mem_padded", "HvMem_drop"}

C12_MemoryOpsNeedSession ==
    (lastCall.op \in {"HvMem_read", "HvMem_write"} /\ lastCall.result = "Ok") =>
        /\ lastCall.pre # {}
        /\ ~TargetRunning

(***************************************************************************)
(* Properties of the block device (checked under SpecBlock)                *)
(***************************************************************************)

\* C2 as stated: in every state, device_activated implies that the status
\* byte has ACKNOWLEDGE, DRIVER, FEATURES_OK and DRIVER_OK set and that
\* driver_features has VERSION_1.
C2_ActivatedImpliesNegotiated ==
    device_activated =>
        /\ {"ACKNOWLEDGE", "DRIVER", "FEATURES_OK", "DRIVER_OK"} \subseteq status
        /\ "VERSION_1" \in driver_features

\* C3 as stated: once an activated device has been reset, an activation that
\* nothing in the environment fails, by a driver that negotiated VERSION_1,
\* returns Ok and registers a new queue-handler subscriber.
C3_ReactivationSucceeds ==
    (/\ lastMmio.call = "activate"
     /\ everReset
     /\ lastMmio.env = "ok"
     /\ "VERSION_1" \in driver_features) =>
        /\ lastMmio.result = "Ok"
        /\ lastMmio.added
        /\ sub_id # {}

\* C4: activate() on a device whose device_activated flag is set returns
\* AlreadyActivated without opening the backing file, registering an
\* ioeventfd or adding a subscriber; the device never has more than one
\* queue-handler subscriber.
C4_ActivationOneShot ==
    /\ Cardinality(subscribers) <= 1
    /\ (lastMmio.call = "activate" /\ lastMmio.preActivated) =>
           /\ lastMmio.result = "AlreadyActivated"
           /\ ~lastMmio.opened
           /\ ~lastMmio.registered
           /\ ~lastMmio.added

\* C4, its case: activate() has been called on an activated device.
C4_Witness ==
    /\ lastMmio.call = "activate"
    /\ lastMmio.preActivated
    /\ lastMmio.result = "AlreadyActivated"

\* C5: activate() on a device that is not activated and whose driver
\* features lack VERSION_1 returns BadFeatures carrying the driver feature
\* word and changes nothing: device_activated stays false, sub_id stays None,
\* no file is opened, no ioeventfd registered, no subscriber added.
C5_BadFeaturesLeavesDevice ==
    (/\ lastMmio.call = "activate"
     /\ ~lastMmio.preActivated
     /\ "VERSION_1" \notin driver_features) =>
        /\ lastMmio.result = "BadFeatures"
        /\ lastMmio.word = driver_features
        /\ ~device_activated
        /\ sub_id = {}
        /\ subscribers = {}
        /\ ~lastMmio.opened
        /\ ~lastMmio.registered
        /\ ~lastMmio.added

\* C5, its case: activate() has refused a driver that acknowledged features,
\* VERSION_1 not among them.
C5_Witness ==
    /\ lastMmio.call = "activate"
    /\ lastMmio.result = "BadFeatures"
    /\ "IN_ORDER" \in lastMmio.word
    /\ "VERSION_1" \notin lastMmio.word

(***************************************************************************)
(* Properties of the discovery (checked under SpecDiscover)                *)
(***************************************************************************)

\* C13: get_hypervisor returns a Hypervisor only for a target with exactly
\* one kvm-vm descriptor and at least one kvm-vcpu descriptor; with no VM
\* descriptor, more than one, or no VCPU descriptor it returns an error and
\* builds no Hypervisor and no Tracee.
C13_OneVmSomeVcpu ==
    LET nvm == Cardinality({i \in DOMAIN fds : fds[i] = <<"kvm-vm">>})
        nvcpu == Cardinality({i \in DOMAIN fds : fds[i][1] = "kvm-vcpu"})
    IN  /\ hv.result = "Ok" => (nvm = 1 /\ nvcpu >= 1 /\ hv.hypervisor # {})
        /\ (hv.result # "none" /\ (nvm # 1 \/ nvcpu = 0)) =>
               (hv.result # "Ok" /\ hv.hypervisor = {})

\* C13, its case: a target with two VM descriptors and a VCPU descriptor was
\* refused.
C13_Witness ==
    /\ hv.result = "MultipleVms"
    /\ hv.hypervisor = {}
    /\ \E i \in DOMAIN fds : fds[i][1] = "kvm-vcpu"

\* C14 as stated: whatever the order of the listing, if two VCPU descriptors
\* carry the same index then find_vm_fd (and so get_hypervisor) fails with
\* the 'multiple vcpus with same id' error, and a VCPU list that is returned
\* never holds an index twice.
C14_DuplicateVcpuRefused ==
    /\ (/\ hv.found \in {"Ok", "DuplicateVcpu"}
        /\ \E i \in DOMAIN fds : \E j \in DOMAIN fds :
             /\ i # j
             /\ fds[i][1] = "kvm-vcpu"
             /\ fds[j][1] = "kvm-vcpu"
             /\ parse_usize(fds[i][2]) = parse_usize(fds[j][2])) =>
           (hv.found = "DuplicateVcpu" /\ hv.result = "FindFailed")
    /\ \A h \in hv.hypervisor :
         \A i \in DOMAIN h.vcpus : \A j \in DOMAIN h.vcpus :
            h.vcpus[i].idx = h.vcpus[j].idx => i = j

\* C15 as stated: the VCPU list of a Hypervisor that get_hypervisor returned
\* is in ascending order of the VCPU index, whatever the order of the
\* listing.
C15_VcpusAscending ==
    \A h \in hv.hypervisor :
        \A i \in DOMAIN h.vcpus : \A j \in DOMAIN h.vcpus :
            i < j => h.vcpus[i].idx < h.vcpus[j].idx

(***************************************************************************)
(* Properties of attach() (checked under SpecAttach and SpecAttachFair)    *)
(***************************************************************************)

\* C16: in the loop of run_kvm_wrapped an exit is handed to the device's
\* MMIO handler iff it is an MMIO exit at an address a with
\* base <= a < base + size + DEVICE_MAX_MEM; every other exit leaves the
\* device untouched.
C16_ExitRouting ==
    [][(pc = "loop" /\ threads' = threads /\ shutdown' = shutdown) =>
          /\ lastExit'.delivered <=>
                 /\ lastExit'.kind = "mmio"
                 /\ MmioBase <= lastExit'.addr
                 /\ lastExit'.addr < MmioBase + MmioSize + DEVICE_MAX_MEM
          /\ ~lastExit'.delivered => UNCHANGED blockVars]_vars

\* C16, its case: an MMIO exit in the device-specific space behind the
\* registers was delivered, and the device took a register write.
C16_Witness ==
    /\ lastExit.kind = "mmio"
    /\ lastExit.delivered
    /\ lastExit.addr = MmioBase + MmioSize
    /\ lastMmio.op = "status"

C18_ActivationEndsInterposition ==
    (pc = "loop" /\ device_activated) ~> (pc \in {"ready", "Err"})

\* C19 as stated: a shutdown that is requested after the device has been
\* constructed and before the driver activates it makes attach() return
\* success with the tracee detached and the hypervisor running (unless an
\* error ends attach()).
C19_ShutdownBeforeActivationReturns ==
    (/\ shutdown
     /\ pc \in {"device", "event_thread", "monitor", "stage1", "loop"}
     /\ ~device_activated) ~>
        \/ pc = "Ok" /\ proc = {} /\ TargetRunning
        \/ pc = "Err"

\* C20 as stated, from the state the threads have been started in: after a
\* shutdown signal the event-manager thread and the blkdev-monitor thread
\* eventually terminate and attach() returns with the hypervisor resumed
\* (unless an error ends attach()).
C20_ShutdownEndsThreads ==
    (shutdown /\ {"event-manager", "blkdev-monitor"} \subseteq threads) ~>
        \/ /\ threads \cap {"event-manager", "blkdev-monitor"} = {}
           /\ pc = "Ok"
           /\ TargetRunning
        \/ pc = "Err"

\* C21 as stated: when a step of attach() fails after the tracee was stopped
\* (vm.stop() returned Ok), the tracee is detached and the hypervisor's
\* threads run again by the time attach() returns the error.
C21_FailureDetaches ==
    (pc = "Err" /\ lastCall.op = "stop" /\ lastCall.result = "Ok") =>
        (proc = {} /\ TargetRunning)

(***************************************************************************)
(* Further properties of the block device (checked under SpecBlock)        *)
(***************************************************************************)

\* C25: the device-features word that Block::new built always contains
\* VERSION_1, IN_ORDER and RING_EVENT_IDX; it contains BLK_F_RO iff the
\* device was constructed read_only and BLK_F_FLUSH iff advertise_flush was
\* requested; it contains no other feature bit.
C25_AdvertisedFeatures ==
    /\ {"VERSION_1", "IN_ORDER", "RING_EVENT_IDX"} \subseteq device_features
    /\ "BLK_F_RO" \in device_features <=> read_only
    /\ "BLK_F_FLUSH" \in device_features <=> advertise_flush
    /\ device_features \subseteq
           {"VERSION_1", "IN_ORDER", "RING_EVENT_IDX", "BLK_F_RO", "BLK_F_FLUSH"}

\* C25, its case: a device constructed read-only without flush, whose
\* features a driver has negotiated and which it has activated.
C25_Witness ==
    /\ read_only
    /\ ~advertise_flush
    /\ "BLK_F_RO" \in device_features
    /\ device_activated

\* C26 as stated: after reset returns Ok the status is 0, sub_id is None and
\* no queue handler of the device remains subscribed to the event loop.
C26_ResetUnsubscribes ==
    (lastMmio.call = "reset" /\ lastMmio.result = "Ok") =>
        /\ status = {}
        /\ sub_id = {}
        /\ subscribers = {}

C28_ShortCopyIsError ==
    lastCall.op \in {"HvMem_read", "HvMem_write"} =>
        /\ lastCall.result = "Ok" <=>
               (~lastCall.err /\ lastCall.copied = lastCall.len)
        /\ (lastCall.op = "HvMem_read" /\ lastCall.result # "Ok") =>
               lastCall.value = {}
        /\ lastCall.calls = 1

\* C28, its case: the kernel copied some but not all of the bytes of a read,
\* and the read returned the short-read error.
C28_Witness ==
    /\ lastCall.op = "HvMem_read"
    /\ ~lastCall.err
    /\ 0 < lastCall.copied
    /\ lastCall.copied < lastCall.len
    /\ lastCall.result = "ShortRead"

\* C29: a read that succeeds returns the value of the last write to the
\* region if that write succeeded, and zero if the region has not been
\* written since it was mapped.
C29_RoundTrip ==
    (lastCall.op = "HvMem_read" /\ lastCall.result = "Ok") =>
        LET m == hvmems[lastCall.h] IN
          /\ m.wrote = "ok" => lastCall.value = {m.wval}
          /\ m.wrote = "never" => lastCall.value = {Zeroed(m.tsize)}

\* C29, its case: a value of more than one byte, not zero, was written and
\* read back.
C29_Witness ==
    /\ lastCall.op = "HvMem_read"
    /\ lastCall.result = "Ok"
    /\ hvmems[lastCall.h].wrote = "ok"
    /\ hvmems[lastCall.h].tsize > 1
    /\ hvmems[lastCall.h].wval # Zeroed(hvmems[lastCall.h].tsize)
    /\ lastCall.value = {hvmems[lastCall.h].wval}

(***************************************************************************)
(* The Tracee as get_hypervisor creates it (checked under SpecDiscover)    *)
(***************************************************************************)

C24_SingleShotLatch ==
    /\ [](\A t \in Waiters :
            tpc[t] = "returned" =>
                (device_ready /\ tpc[Notifier] \in {"set", "notified", "done"}))
    /\ [][device_ready => device_ready']_vars
    /\ [][\A t \in Waiters :
            (device_ready /\ tpc[t] = "check") => tpc'[t] # "blocked"]_vars
    /\ \A t \in Waiters : (device_ready ~> tpc[t] = "returned")

\* C24, its case: notify() has run to its end and every wait() has
\* returned.
C24_Witness ==
    /\ device_ready
    /\ tpc[Notifier] = "done"
    /\ \A t \in Waiters : tpc[t] = "returned"

(***************************************************************************)
(* Properties of the device's mutex (checked under SpecMmio)               *)
(***************************************************************************)

\* C23: accesses to the block device are serialized: at most one thread at a
\* time is inside the Block (reading or writing a register, reading the
\* configuration), that thread holds the guard of the device's mutex, and
\* the device's state changes only in a step of the thread inside.
C23_MmioSerialized ==
    /\ [](/\ Cardinality(Inside) <= 1
          /\ \A t \in Inside : <<t, "blkdev", "mutex">> \in guards)
    /\ [][blockVars' # blockVars =>
             (Inside = {"interposer"} /\ tpc'["blkdev-monitor"] = tpc["blkdev-monitor"])]_vars

\* C23, its case: the interposer has written the status register of the
\* locked device while the blkdev-monitor waits in lock().
C23_Witness ==
    /\ DOMAIN tpc = BlkThreads
    /\ tpc["interposer"] = "accessed"
    /\ tpc["blkdev-monitor"] = "want"
    /\ lastMmio.op = "status"
    /\ device_activated

(***************************************************************************)
(* Properties of the tracee lock (checked under SpecLock)                  *)
(***************************************************************************)

\* C22: the tracee lock rule: a transition (stop, resume) runs under the
\* write lock; every operation that executes a syscall in the target or
\* writes the target's memory runs under the write lock; what runs under the
\* read lock executes no syscall and writes nothing; and no operation on the
\* target happens while another caller's transition is under way.
C22_LockDiscipline ==
    lastRemote.op # "none" =>
        /\ lastRemote.transition => lastRemote.mode = "write"
        /\ (lastRemote.syscall \/ lastRemote.memwrite) => lastRemote.mode = "write"
        /\ lastRemote.mode = "read" => ~lastRemote.syscall /\ ~lastRemote.memwrite
        /\ lastRemote.transiting = {}

(***************************************************************************)
(* Properties of vm_add_mem (under SpecSlots), of HvMem's drop (under Spec)*)
(***************************************************************************)

\* C31: the slot length vm_add_mem::<T> asks for is the smallest positive
\* multiple of the page size that is >= sizeof(T).
C31_SlotLenIsPagePadding ==
    (lastCall.op = "vm_add_mem" /\ lastCall.result \in {"Blocked", "Panicked"}) =>
        /\ lastCall.slot_len > 0
        /\ lastCall.slot_len % PageSize = 0
        /\ lastCall.slot_len >= lastCall.tsize
        /\ \A n \in 1..lastCall.slot_len :
             (n % PageSize = 0 /\ n >= lastCall.tsize) => lastCall.slot_len <= n

\* C32: vm_add_mem, called by a thread that holds no lock on the tracee,
\* returns Ok or Err: it neither blocks on the tracee lock it holds nor
\* panics on it.
C32_VmAddMemReturns ==
    /\ lock # "held"
    /\ lastCall.op = "vm_add_mem" => lastCall.result \notin {"Blocked", "Panicked"}

\* C36: the drop of an HvMem passes to the remote munmap the length that was
\* passed to the remote mmap, and nothing of the allocation stays mapped.
C36_UnmapLenIsMapLen ==
    \A h \in DOMAIN hvmems :
        hvmems[h].unmaps > 0 =>
            /\ hvmems[h].ulen = hvmems[h].size
            /\ hvmems[h].mapped = 0

(***************************************************************************)
(* Properties of get_maps (under SpecSlots)                                *)
(***************************************************************************)

\* C37: the number of memslot entries get_maps reads out of a perf record
\* never exceeds the MAX_SLOTS entries the probe can write, whatever the
\* VM's used_slots; and when the capacity is reached the caller is warned.
C37_ReadWithinRecord ==
    (lastCall.op = "get_maps" /\ lastCall.result \in {"Ok", "NoMapping", "Fault"}) =>
        /\ lastCall.read <= MAX_SLOTS
        /\ lastCall.read <= lastCall.written
        /\ lastCall.used_slots >= MAX_SLOTS => lastCall.warned

(***************************************************************************)
(* Properties of failed activations and of sub_id (under SpecBlock)        *)
(***************************************************************************)

\* C33: an activate() that returns an error leaves device_activated and
\* sub_id as they were, adds no subscriber, and leaves behind no ioeventfd
\* that it registered.
C33_ActivationAtomic ==
    [][(/\ lastMmio' # lastMmio
        /\ lastMmio'.call = "activate"
        /\ lastMmio'.result # "Ok") =>
           /\ device_activated' = device_activated
           /\ sub_id' = sub_id
           /\ subscribers' = subscribers
           /\ ~Orphaned(lastMmio')]_vars

\* C34: sub_id is Some exactly when a queue-handler subscriber of the device
\* is registered with the event manager, and then it is that subscriber's id.
C34_SubIdIffSubscribed ==
    /\ (sub_id # {}) <=> (subscribers # {})
    /\ sub_id \subseteq subscribers

(***************************************************************************)
(* Properties of the loader (checked under SpecLoader)                     *)
(***************************************************************************)

\* C40: when Stage1Args does not fit into its loadable (its end exceeds the
\* length of the mapping) write_stage1_args returns the error, with no
\* unsigned underflow and no panic; when it fits, nothing is placed outside
\* the mapping, and a content shorter than its end is zero-extended to
\* exactly its end.
C40_Stage1ArgsPlaced ==
    lastCall.op = "write_stage1_args" =>
        LET l == lastCall.loadable IN
          /\ lastCall.end > l.len =>
                (lastCall.result = "Err" /\ ~lastCall.underflow)
          /\ lastCall.end <= l.len =>
                /\ lastCall.result = "Ok"
                /\ l.virt_offset + Len(lastCall.content) <= l.len
                /\ lastCall.end > Len(l.content) =>
                      lastCall.content = l.content \o Zeros(lastCall.end - Len(l.content))

(***************************************************************************)
(* Properties of the start of stage1 (checked under SpecAttach)            *)
(***************************************************************************)

\* C38: the stage1 thread does its work (the ssh command) only after
\* DeviceReady.notify(); notify() is called only by run_kvm_wrapped's
\* closure, between reading the device's MMIO range and the first wait for
\* a KVM exit; so stage1 never works before the interposer is in its loop.
C38_Stage1AfterNotify ==
    /\ [](device_ready => pc \in {"loop", "ready", "Err", "exited"})
    /\ [][(~device_ready /\ device_ready') => (pc = "stage1" /\ pc' = "loop")]_vars
    /\ [][("stage1" \in threads /\ "stage1" \notin threads' /\ pc' # "exited") =>
             (device_ready /\ pc \in {"loop", "ready", "Err"})]_vars

\* C38, its case: stage1 has done its work and returned while the interposer
\* handles the guest's MMIO exits in the device's range.
C38_Witness ==
    /\ pc = "loop"
    /\ device_ready
    /\ "stage1" \notin threads
    /\ "blkdev-monitor" \in threads
    /\ lastExit.kind = "mmio"
    /\ lastExit.delivered

(***************************************************************************)
(* Properties of the calls into the event loop (under SpecEventFair)       *)
(***************************************************************************)

====
